---------------------------- MODULE Spec2Model ----------------------------
(***************************************************************************)
(* The recommendation engine of backend/app/models: ContentBasedModel,     *)
(* ItemBasedModel, UserBasedModel and HybridModel, as state machines over  *)
(* small catalogs and rating snapshots.                                    *)
(*                                                                         *)
(* Numbers.  Similarities and scores are binary fixed point numbers with   *)
(* FracBits fractional bits ("ticks": One = 2^FracBits ticks = 1.0).  A    *)
(* rating or a predicted rating is in ticks too (5.0 = 5 * One).  The      *)
(* rating matrix holds half-stars (1 = 0.5 ... 10 = 5.0), zero = unrated.  *)
(* Floating point rounding is modelled by Fl: the nearest value with       *)
(* Precision significant bits, ties to even.  Array positions are 0-based  *)
(* as in the source; a Python dict is a function on its set of keys.       *)
(***************************************************************************)
EXTENDS Integers, Sequences, FiniteSets, TLC

VARIABLES
    movies_df,      \* the catalog snapshot held by the database
    ratings_df,     \* the rating log snapshot held by the database
    cb,             \* the ContentBasedModel object
    ib,             \* the ItemBasedModel object
    ub,             \* the UserBasedModel object
    hy,             \* the HybridModel object
    pc,             \* position of the training script (train_models.main)
    n_fits,         \* how many times fit ran on each of cb, ib, ub
    call,           \* the operation in progress and its arguments
    result,         \* what that operation gives back to its caller
    exclude_arg,    \* the caller's exclude set object after the call
    model_files,    \* the pickled models in Config.MODELS_DIR, by model name
    model_cache     \* _model_cache of the recommendation routes

vars == <<movies_df, ratings_df, cb, ib, ub, hy, pc, n_fits, call, result, exclude_arg,
          model_files, model_cache>>

-----------------------------------------------------------------------------
(* Bounds of the model *)

FracBits == 8
Precision == 8
SqrtBits == 8
MaxN == 2
MaxWeightArg == 3
MaxScale == 2
MaxFits == 2
\* constructor arguments of the collaborative models, scaled to the model's
\* small snapshots (the source's defaults are k = 20, min_ratings = 5)
K == 2
MinRatings == 2

(* Program constants, in the model's units *)

MinRatingHalf == 1
MaxRatingHalf == 10
MidRatingHalf == 5
\* UserBasedModel(k=20, min_common=3) of the training script
MinCommon == 3

-----------------------------------------------------------------------------
(* Arithmetic *)

RECURSIVE Pow2(_)
Pow2(n) == IF n <= 0 THEN 1 ELSE 2 * Pow2(n - 1)

One == Pow2(FracBits)
HalfStar == One \div 2
MinRating == MinRatingHalf * HalfStar
MaxRating == MaxRatingHalf * HalfStar

Abs(x) == IF x < 0 THEN -x ELSE x
Sign(x) == IF x < 0 THEN -1 ELSE IF x > 0 THEN 1 ELSE 0
Max2(a, b) == IF a >= b THEN a ELSE b
Min2(a, b) == IF a <= b THEN a ELSE b

RECURSIVE SumOver(_, _)
SumOver(f, S) ==
    IF S = {} THEN 0
    ELSE LET x == CHOOSE y \in S : TRUE IN f[x] + SumOver(f, S \ {x})

RECURSIVE GcdNat(_, _)
GcdNat(a, b) == IF b = 0 THEN a ELSE GcdNat(b, a % b)

\* the greatest common divisor of |a| and |b|
Gcd(a, b) == GcdNat(Abs(a), Abs(b))

RECURSIVE SqrtBisect(_, _, _)
SqrtBisect(x, lo, hi) ==
    IF hi - lo <= 1 THEN lo
    ELSE LET mid == (lo + hi) \div 2
         IN IF mid * mid <= x THEN SqrtBisect(x, mid, hi)
            ELSE SqrtBisect(x, lo, mid)

\* floor of the square root of x >= 0
ISqrt(x) == SqrtBisect(x, 0, Min2(x, 46340) + 1)

RECURSIVE Log2Floor(_, _)
\* the largest e with d * 2^e <= n, for n >= d > 0
Log2Floor(n, d) == IF 2 * d <= n THEN 1 + Log2Floor(n, 2 * d) ELSE 0

\* n / u rounded to the nearest integer, ties to the even one (n >= 0, u > 0)
RoundHalfEven(n, u) ==
    LET q == n \div u
        r == n - q * u
    IN IF 2 * r > u \/ (2 * r = u /\ q % 2 = 1) THEN q + 1 ELSE q

\* The floating point value of n / d (n >= 0, d > 0), in ticks: n / d rounded
\* to Precision significant bits, ties to even.
FlPos(n, d) ==
    IF n = 0 THEN 0
    ELSE IF n < d THEN RoundHalfEven(n, d)
    ELSE LET sh == Log2Floor(n, d) - Precision + 1
         IN IF sh <= 0 THEN RoundHalfEven(n, d)
            ELSE Pow2(sh) * RoundHalfEven(n, d * Pow2(sh))

Fl(n, d) == IF n < 0 THEN -FlPos(-n, d) ELSE FlPos(n, d)

\* np.clip(x, 0.5, 5.0)
Clip(x) == Max2(MinRating, Min2(MaxRating, x))

\* sklearn cosine_similarity of two rows given their dot product and squared
\* norms; a zero row has similarity 0 to every row (normalize leaves it zero).
Cosine(dot, n1, n2) ==
    IF n1 = 0 \/ n2 = 0 THEN 0
    ELSE LET den == ISqrt(n1 * n2 * Pow2(2 * SqrtBits))
         IN Sign(dot) * Min2(One, FlPos(Abs(dot) * One * Pow2(SqrtBits), den))

-----------------------------------------------------------------------------
(* Sequences and orderings *)

Range(s) == {s[i] : i \in DOMAIN s}

\* the first n entries of s (s[:n] for n >= 0)
Take(s, n) == SubSeq(s, 1, Min2(n, Len(s)))

\* A faulty sort, which hands back entries of equal key in reverse order.
SortDescTiesReversed(s) ==
    LET n == Len(s)
        rank(i) == Cardinality({j \in 1..n : s[j].key > s[i].key})
                   + Cardinality({j \in i..n : s[j].key = s[i].key})
    IN [p \in 1..n |-> s[CHOOSE i \in 1..n : rank(i) = p]]

\* list.sort(key=..., reverse=True) and DataFrame.sort_values(ascending=False):
\* descending by .key, entries with equal keys keep their order.
SortDescStable(s) ==
    LET n == Len(s)
        rank(i) == Cardinality({j \in 1..n : s[j].key > s[i].key})
                   + Cardinality({j \in 1..i : s[j].key = s[i].key})
    IN [p \in 1..n |-> s[CHOOSE i \in 1..n : rank(i) = p]]

\* np.argsort(v)[::-1] for v a function on 0..n-1: positions by ascending
\* value (equal values in position order, as numpy's sort does on the short
\* arrays of the model), then reversed.  The result is a sequence of positions.
ArgsortReversed(v, n) ==
    LET asc(i) == Cardinality({j \in 0..(n-1) : v[j] < v[i]})
                  + Cardinality({j \in 0..(i-1) : v[j] = v[i]})
    IN [p \in 1..n |-> CHOOSE i \in 0..(n-1) : asc(i) = n - p]

\* the entries of s that satisfy keep, in order
RECURSIVE SelectIdx(_, _, _)
SelectIdx(s, keep, i) ==
    IF i > Len(s) THEN <<>>
    ELSE (IF i \in keep THEN <<s[i]>> ELSE <<>>) \o SelectIdx(s, keep, i + 1)

\* sorted(set) for a set of integers
RECURSIVE SortedSeq(_)
SortedSeq(S) ==
    IF S = {} THEN <<>>
    ELSE LET m == CHOOSE x \in S : \A y \in S : x <= y
         IN <<m>> \o SortedSeq(S \ {m})

\* a dict updated key by key from a list of keys: d[k] = position of the last
\* occurrence of k (0-based); keys already in d and not in the list stay.
DictUpdateIdx(d, keys) ==
    [k \in DOMAIN d \cup Range(keys) |->
        IF k \in Range(keys)
        THEN (CHOOSE i \in DOMAIN keys :
                 keys[i] = k /\ \A j \in DOMAIN keys : keys[j] = k => j <= i) - 1
        ELSE d[k]]

\* a dict updated position by position: d[i-1] = keys[i]
DictUpdateKey(d, keys) ==
    [i \in DOMAIN d \cup {j - 1 : j \in DOMAIN keys} |->
        IF i + 1 \in DOMAIN keys THEN keys[i + 1] ELSE d[i]]

EmptyDict == [x \in {} |-> 0]

-----------------------------------------------------------------------------
(* The data the engine is fed: catalog rows and rating rows *)

Movies == {1, 2, 3, 4}
Users == {1, 2, 3}

\* the feature row (TF-IDF weights over two genre terms) of each movie
Feat(m) == CASE m = 1 -> <<1, 0>>
             [] m = 2 -> <<0, 1>>
             [] m = 3 -> <<1, 2>>
             [] OTHER -> <<2, 1>>

\* the aggregate statistics stored with each movie (avgRating in ticks)
AvgRating(m) == CASE m = 1 -> 7 * HalfStar
                  [] m = 2 -> 9 * HalfStar
                  [] m = 3 -> 8 * HalfStar
                  [] OTHER -> 6 * HalfStar

RatingCount(m) == CASE m = 1 -> 2
                    [] m = 2 -> 1
                    [] m = 3 -> 2
                    [] OTHER -> 2

MovieRow(m) == [movieId |-> m, feat |-> Feat(m),
                avgRating |-> AvgRating(m), ratingCount |-> RatingCount(m)]

\* catalog snapshots: sequences of movie rows
Catalogs == { [i \in DOMAIN ids |-> MovieRow(ids[i])] : ids \in {<<1, 2, 3>>, <<2, 3>>, <<1, 2, 3, 4>>} }

MovieIds(df) == [i \in DOMAIN df |-> df[i].movieId]

\* a table of the ratings (half-stars, 0 = no rating) of users 1, 2, 3 for
\* movies 1, 2, 3, 4
Table(u1, u2, u3) == [c \in Users \X Movies |-> <<u1, u2, u3>>[c[1]][c[2]]]

RatingTables ==
    { Table(<<10, 10, 2, 0>>, <<2, 2, 10, 0>>, <<10, 0, 2, 0>>),
      Table(<<10, 10, 0, 0>>, <<2, 2, 0, 0>>, <<0, 0, 0, 0>>),
      Table(<<10, 2, 2, 0>>, <<2, 2, 0, 0>>, <<10, 0, 0, 0>>),
      Table(<<8, 10, 0, 0>>, <<10, 8, 6, 0>>, <<6, 0, 10, 0>>) }

\* the ratings that come with the catalog of four movies
WideTables == { Table(<<10, 2, 10, 2>>, <<2, 10, 2, 10>>, <<10, 2, 0, 0>>) }

\* the rating log of a table over the movies of a catalog: one row per rated
\* (user, movie) pair (the ratings collection has a unique index on the pair),
\* ordered by user, then movie
RECURSIVE LogOf(_, _, _)
LogOf(t, ids, cells) ==
    IF cells = <<>> THEN <<>>
    ELSE LET c == Head(cells)
         IN (IF t[c] # 0 /\ c[2] \in ids
             THEN <<[userId |-> c[1], movieId |-> c[2], rating |-> t[c]]>>
             ELSE <<>>) \o LogOf(t, ids, Tail(cells))

AllCells == <<<<1, 1>>, <<1, 2>>, <<1, 3>>, <<1, 4>>,
              <<2, 1>>, <<2, 2>>, <<2, 3>>, <<2, 4>>,
              <<3, 1>>, <<3, 2>>, <<3, 3>>, <<3, 4>>>>

RatingLogs(df) ==
    { LogOf(t, Range(MovieIds(df)), AllCells) :
        t \in IF Len(df) = 4 THEN WideTables ELSE RatingTables }

\* the rated lists a caller may pass (user_rated_movies): movieId and rating in
\* half-stars
Rated(m, r) == [movieId |-> m, rating |-> r]
RatedLists == { <<>>, <<Rated(1, 10)>>, <<Rated(2, 10), Rated(3, 10)>>,
                <<Rated(1, 2), Rated(2, 10)>> }

Excludes == { {}, {2, 3}, {1, 2, 3}, Movies }
Ns == 0..MaxN

-----------------------------------------------------------------------------
(* What a call gives back *)

Raise(e) == [kind |-> "raise", value |-> e]
RetList(l) == [kind |-> "list", value |-> l]
RetFloat(x) == [kind |-> "float", value |-> x]
RetNone == [kind |-> "none", value |-> 0]

-----------------------------------------------------------------------------
(* ContentBasedModel *)

ContentNew ==
    [is_fitted |-> FALSE, movies_df |-> <<>>, tfidf_matrix |-> <<>>,
     similarity_matrix |-> EmptyDict,
     movie_id_to_idx |-> EmptyDict, idx_to_movie_id |-> EmptyDict]

Dot(v, w) == SumOver([i \in DOMAIN v |-> v[i] * w[i]], DOMAIN v)

\* sklearn cosine_similarity over the rows of a matrix (a sequence of rows),
\* as a matrix on positions 0..n-1
CosineMatrix(rows) ==
    LET n == Len(rows)
    IN [i \in 0..(n-1) |-> [j \in 0..(n-1) |->
          Cosine(Dot(rows[i+1], rows[j+1]), Dot(rows[i+1], rows[i+1]),
                 Dot(rows[j+1], rows[j+1]))]]

ContentFit(self, df) ==
    LET tfidf == [i \in DOMAIN df |-> df[i].feat]
    IN [is_fitted |-> TRUE,
        movies_df |-> df,
        tfidf_matrix |-> tfidf,
        similarity_matrix |-> CosineMatrix(tfidf),
        movie_id_to_idx |-> DictUpdateIdx(self.movie_id_to_idx, MovieIds(df)),
        idx_to_movie_id |-> DictUpdateKey(self.idx_to_movie_id, MovieIds(df))]

\* the loop that collects up to n entries of a ranked list of positions,
\* skipping excluded ids (the length test comes first, so n = 0 gives none)
RankedPick(self, order, skip, n) ==
    LET keep == {p \in DOMAIN order : self.idx_to_movie_id[order[p]] \notin skip}
    IN Take(SelectIdx(order, keep, 1), n)

\* the result rows of get_similar_movies for the picked positions
ContentSimilarRows(self, similarities, picked) ==
    [p \in DOMAIN picked |->
       [movieId |-> self.idx_to_movie_id[picked[p]],
        similarity |-> similarities[picked[p]]]]

ContentGetSimilar(self, movie_id, n, exclude) ==
    IF ~self.is_fitted THEN Raise("RuntimeError")
    ELSE IF movie_id \notin DOMAIN self.movie_id_to_idx THEN RetList(<<>>)
    ELSE LET idx == self.movie_id_to_idx[movie_id]
             size == Len(self.movies_df)
         IN IF idx >= size THEN Raise("IndexError")
            ELSE RetList(ContentSimilarRows(self, self.similarity_matrix[idx],
                    RankedPick(self, ArgsortReversed(self.similarity_matrix[idx], size),
                               exclude \cup {movie_id}, n)))

\* _get_popular_movies: the length test comes after the append, so one entry
\* is returned even for n = 0
ContentPopular(self, n, exclude) ==
    LET df == self.movies_df
        keyed == [i \in DOMAIN df |->
                    [key |-> df[i].ratingCount * (MaxRating + 1) + df[i].avgRating,
                     row |-> df[i]]]
        sorted == SortDescStable(keyed)
        keep == {i \in DOMAIN sorted : sorted[i].row.movieId \notin exclude}
        kept == SelectIdx(sorted, keep, 1)
        out == Take(kept, Max2(n, 1))
    IN [i \in DOMAIN out |->
          [movieId |-> out[i].row.movieId, score |-> out[i].row.avgRating,
           method |-> "popular"]]

RatedIds(rated) == {rated[i].movieId : i \in DOMAIN rated}

\* the set object the caller passed as exclude, after recommend_for_user:
\* "exclude or set()" keeps a non-empty set, which update() then changes
ContentExcludeAfter(self, rated, exclude) ==
    IF ~self.is_fitted \/ rated = <<>> \/ exclude = {} THEN exclude
    ELSE exclude \cup RatedIds(rated)

\* The cells of the score array that np.divide(..., where=weights > 0) leaves
\* unwritten: positions whose accumulated |similarity| is zero.
ContentWeights(self, rated) ==
    LET size == Len(self.movies_df)
        known == {i \in DOMAIN rated : rated[i].movieId \in DOMAIN self.movie_id_to_idx}
    IN [j \in 0..(size-1) |->
          SumOver([i \in known |->
                     Abs(self.similarity_matrix[self.movie_id_to_idx[rated[i].movieId]][j])],
                  known)]

ContentUnwritten(self, rated) ==
    {j \in 0..(Len(self.movies_df) - 1) : ContentWeights(self, rated)[j] = 0}

\* A faulty selection, which skips no movie.
ContentTopScoresUnfiltered(self, scores, skip, n) ==
    LET picked == RankedPick(self, ArgsortReversed(scores, Len(self.movies_df)), {}, n)
    IN [p \in DOMAIN picked |->
          [movieId |-> self.idx_to_movie_id[picked[p]],
           score |-> scores[picked[p]],
           method |-> "content_based"]]

\* the top of the score array: argsort, reversed, excluded ids skipped, n rows
ContentTopScores(self, scores, skip, n) ==
    LET picked == RankedPick(self, ArgsortReversed(scores, Len(self.movies_df)), skip, n)
    IN [p \in DOMAIN picked |->
          [movieId |-> self.idx_to_movie_id[picked[p]],
           score |-> scores[picked[p]],
           method |-> "content_based"]]

\* recommend_for_user; garbage gives the content of the unwritten cells
ContentRecommend(self, rated, n, exclude, garbage) ==
    IF ~self.is_fitted THEN Raise("RuntimeError")
    ELSE IF rated = <<>> THEN RetList(ContentPopular(self, n, exclude))
    ELSE LET size == Len(self.movies_df)
             skip == exclude \cup RatedIds(rated)
             known == {i \in DOMAIN rated :
                         rated[i].movieId \in DOMAIN self.movie_id_to_idx}
             row(i) == self.similarity_matrix[self.movie_id_to_idx[rated[i].movieId]]
             \* weight = (rating - 2.5) / 2.5, kept as the numerator over 2.5
             acc == [j \in 0..(size-1) |->
                       SumOver([i \in known |-> row(i)[j] * (rated[i].rating - MidRatingHalf)],
                               known)]
             weights == ContentWeights(self, rated)
             scores == [j \in 0..(size-1) |->
                          IF weights[j] > 0
                          THEN Fl(acc[j] * One, MidRatingHalf * weights[j])
                          ELSE garbage[j]]
         IN IF \E i \in known : self.movie_id_to_idx[rated[i].movieId] >= size
            THEN Raise("IndexError")
            ELSE RetList(ContentTopScores(self, scores, skip, n))

\* the accumulation loop of predict_rating, in floating point: <<weighted_sum,
\* similarity_sum>> after the entries i.. of the rated list
RECURSIVE ContentPredictLoop(_, _, _, _, _, _)
ContentPredictLoop(self, movie_idx, rated, i, weighted_sum, similarity_sum) ==
    IF i > Len(rated) THEN <<weighted_sum, similarity_sum>>
    ELSE IF rated[i].movieId \notin DOMAIN self.movie_id_to_idx
         THEN ContentPredictLoop(self, movie_idx, rated, i + 1, weighted_sum, similarity_sum)
    ELSE LET rated_idx == self.movie_id_to_idx[rated[i].movieId]
             similarity == self.similarity_matrix[movie_idx][rated_idx]
         IN IF similarity > 0
            THEN ContentPredictLoop(self, movie_idx, rated, i + 1,
                    Fl(weighted_sum + Fl(similarity * rated[i].rating * HalfStar, One), 1),
                    Fl(similarity_sum + similarity, 1))
            ELSE ContentPredictLoop(self, movie_idx, rated, i + 1,
                                    weighted_sum, similarity_sum)

ContentPredictRating(self, movie_id, rated) ==
    IF ~self.is_fitted \/ movie_id \notin DOMAIN self.movie_id_to_idx THEN RetNone
    ELSE IF rated = <<>> THEN RetNone
    ELSE LET movie_idx == self.movie_id_to_idx[movie_id]
             size == Len(self.movies_df)
         IN IF movie_idx >= size
               \/ \E i \in DOMAIN rated :
                     /\ rated[i].movieId \in DOMAIN self.movie_id_to_idx
                     /\ self.movie_id_to_idx[rated[i].movieId] >= size
            THEN Raise("IndexError")
            ELSE LET sums == ContentPredictLoop(self, movie_idx, rated, 1, 0, 0)
                 IN IF sums[2] > 0 THEN RetFloat(Fl(sums[1] * One, sums[2]))
                    ELSE RetNone

-----------------------------------------------------------------------------
(* The user-item matrix shared by the collaborative models *)

\* sparse.csr_matrix((data, (rows, cols)), shape).toarray(): the cell of a
\* (user, movie) position is the sum of the ratings of the rows that map to it
CsrMatrix(df, user_to_idx, movie_to_idx, n_users, n_items) ==
    [i \in 0..(n_users-1) |-> [j \in 0..(n_items-1) |->
        LET hit == {r \in DOMAIN df : /\ user_to_idx[df[r].userId] = i
                                      /\ movie_to_idx[df[r].movieId] = j}
        IN SumOver([r \in hit |-> df[r].rating], hit)]]

\* np.where(row > 0)[0]: the positions 0..n-1 with a positive entry, ascending
WherePositive(row, n) == SortedSeq({j \in 0..(n-1) : row[j] > 0})

\* A faulty centering, which leaves the ratings as they are.
RawRow(row, n) == [j \in 0..(n-1) |-> row[j]]

\* a row of deviations from the mean of its non-zero entries (0 where the
\* entry is 0), as integers: the deviations times the positive factor that
\* makes them whole and coprime, which cosine similarity cancels
CenteredRow(row, n) ==
    LET rated == {j \in 0..(n-1) : row[j] > 0}
        cnt == Cardinality(rated)
        total == SumOver(row, rated)
        raw == [j \in 0..(n-1) |-> IF j \in rated THEN row[j] * cnt - total ELSE 0]
        RECURSIVE GcdAll(_)
        GcdAll(S) == IF S = {} THEN 0
                     ELSE LET x == CHOOSE y \in S : TRUE
                          IN Gcd(raw[x], GcdAll(S \ {x}))
        g == GcdAll(0..(n-1))
    IN IF g = 0 THEN raw ELSE [j \in 0..(n-1) |-> raw[j] \div g]

\* cosine similarity of centered rows (a function on 0..n-1 of rows on
\* 0..len-1), with np.fill_diagonal(sim, 0)
CenteredSimilarity(rows, n, len) ==
    LET c == [i \in 0..(n-1) |-> CenteredRow(rows[i], len)]
        dot(a, b) == SumOver([x \in 0..(len-1) |-> a[x] * b[x]], 0..(len-1))
    IN [i \in 0..(n-1) |-> [j \in 0..(n-1) |->
          IF i = j THEN 0
          ELSE Cosine(dot(c[i], c[j]), dot(c[i], c[i]), dot(c[j], c[j]))]]

\* A faulty cut, which keeps the k least similar rated items.
TopKLeastSimilar(indices, sims, k) ==
    IF Len(indices) > k
    THEN LET L == Len(indices)
             byPos == [p \in 0..(L-1) |-> sims[indices[p + 1]]]
             all == ArgsortReversed(byPos, L)
             low == [q \in 1..k |-> all[L - k + q]]
         IN [q \in DOMAIN low |-> indices[low[q] + 1]]
    ELSE indices

\* rated_indices and similarities cut to the k most similar when there are
\* more than k: np.argsort(similarities)[::-1][:k] applied to both
TopK(indices, sims, k) ==
    IF Len(indices) > k
    THEN LET L == Len(indices)
             byPos == [p \in 0..(L-1) |-> sims[indices[p + 1]]]
             top == Take(ArgsortReversed(byPos, L), k)
         IN [q \in DOMAIN top |-> indices[top[q] + 1]]
    ELSE indices

\* A faulty popularity ranking, which forgets the exclude set.
PopularItemsIgnoringExclude(self, n, exclude) ==
    LET df == self.movies_df
        keyed == [i \in DOMAIN df |-> [key |-> df[i].avgRating, row |-> df[i]]]
        sorted == SortDescStable(keyed)
        keep == {i \in DOMAIN sorted : sorted[i].row.movieId \in DOMAIN self.movie_to_idx}
        out == Take(SelectIdx(sorted, keep, 1), Max2(n, 1))
    IN [i \in DOMAIN out |->
          [movieId |-> out[i].row.movieId, score |-> out[i].row.avgRating,
           method |-> "popular"]]

\* _get_popular_items of both collaborative models
PopularItems(self, n, exclude) ==
    LET df == self.movies_df
        keyed == [i \in DOMAIN df |-> [key |-> df[i].avgRating, row |-> df[i]]]
        sorted == SortDescStable(keyed)
        keep == {i \in DOMAIN sorted :
                    /\ sorted[i].row.movieId \notin exclude
                    /\ sorted[i].row.movieId \in DOMAIN self.movie_to_idx}
        kept == SelectIdx(sorted, keep, 1)
        out == Take(kept, Max2(n, 1))
    IN [i \in DOMAIN out |->
          [movieId |-> out[i].row.movieId, score |-> out[i].row.avgRating,
           method |-> "popular"]]

\* A faulty ranking, which hands back the n lowest predictions.
LowestPredictions(predictions, n, method) ==
    LET keyed == [i \in DOMAIN predictions |->
                    [key |-> -predictions[i].score, p |-> predictions[i]]]
        top == Take(SortDescStable(keyed), n)
    IN [i \in DOMAIN top |->
          [movieId |-> top[i].p.movieId, score |-> top[i].p.score, method |-> method]]

\* predictions.sort(key=score, reverse=True); predictions[:n], as result rows
TopPredictions(predictions, n, method) ==
    LET keyed == [i \in DOMAIN predictions |->
                    [key |-> predictions[i].score, p |-> predictions[i]]]
        top == Take(SortDescStable(keyed), n)
    IN [i \in DOMAIN top |->
          [movieId |-> top[i].p.movieId, score |-> top[i].p.score, method |-> method]]

-----------------------------------------------------------------------------
(* ItemBasedModel *)

ItemNew(k, min_ratings) ==
    [is_fitted |-> FALSE, k |-> k, min_ratings |-> min_ratings,
     ratings_df |-> <<>>, movies_df |-> <<>>,
     user_ids |-> <<>>, movie_ids |-> <<>>,
     user_to_idx |-> EmptyDict, idx_to_user |-> EmptyDict,
     movie_to_idx |-> EmptyDict, idx_to_movie |-> EmptyDict,
     user_item_matrix |-> EmptyDict, item_similarity |-> EmptyDict]

Transpose(matrix, n_rows, n_cols) ==
    [j \in 0..(n_cols-1) |-> [i \in 0..(n_rows-1) |-> matrix[i][j]]]

\* A faulty fit, which keeps every rated movie whatever its number of ratings.
ItemFitUnfiltered(self, ratings, movies) ==
    LET user_ids == SortedSeq({ratings[r].userId : r \in DOMAIN ratings})
        movie_ids == SortedSeq({ratings[r].movieId : r \in DOMAIN ratings})
        user_to_idx == DictUpdateIdx(self.user_to_idx, user_ids)
        movie_to_idx == DictUpdateIdx(self.movie_to_idx, movie_ids)
        n_users == Len(user_ids)
        n_items == Len(movie_ids)
        matrix == CsrMatrix(ratings, user_to_idx, movie_to_idx, n_users, n_items)
    IN [self EXCEPT
          !.ratings_df = ratings, !.movies_df = movies,
          !.user_ids = user_ids, !.movie_ids = movie_ids,
          !.user_to_idx = user_to_idx,
          !.idx_to_user = DictUpdateKey(self.idx_to_user, user_ids),
          !.movie_to_idx = movie_to_idx,
          !.idx_to_movie = DictUpdateKey(self.idx_to_movie, movie_ids),
          !.user_item_matrix = matrix,
          !.item_similarity =
              CenteredSimilarity(Transpose(matrix, n_users, n_items), n_items, n_users),
          !.is_fitted = TRUE]

ItemFit(self, ratings, movies) ==
    LET count(m) == Cardinality({r \in DOMAIN ratings : ratings[r].movieId = m})
        valid_items == {m \in {ratings[r].movieId : r \in DOMAIN ratings} :
                          count(m) >= self.min_ratings}
        filtered_df == SelectSeq(ratings, LAMBDA row : row.movieId \in valid_items)
        user_ids == SortedSeq({filtered_df[r].userId : r \in DOMAIN filtered_df})
        movie_ids == SortedSeq({filtered_df[r].movieId : r \in DOMAIN filtered_df})
        user_to_idx == DictUpdateIdx(self.user_to_idx, user_ids)
        movie_to_idx == DictUpdateIdx(self.movie_to_idx, movie_ids)
        n_users == Len(user_ids)
        n_items == Len(movie_ids)
        matrix == CsrMatrix(filtered_df, user_to_idx, movie_to_idx, n_users, n_items)
    IN [self EXCEPT
          !.ratings_df = ratings, !.movies_df = movies,
          !.user_ids = user_ids, !.movie_ids = movie_ids,
          !.user_to_idx = user_to_idx,
          !.idx_to_user = DictUpdateKey(self.idx_to_user, user_ids),
          !.movie_to_idx = movie_to_idx,
          !.idx_to_movie = DictUpdateKey(self.idx_to_movie, movie_ids),
          !.user_item_matrix = matrix,
          !.item_similarity =
              CenteredSimilarity(Transpose(matrix, n_users, n_items), n_items, n_users),
          !.is_fitted = TRUE]

\* A faulty lookup, which indexes the dict without testing for the key.
ItemGetSimilarItemsUnchecked(self, movie_id, n) ==
    IF ~self.is_fitted THEN RetList(<<>>)
    ELSE IF movie_id \notin DOMAIN self.movie_to_idx THEN Raise("KeyError")
    ELSE LET idx == self.movie_to_idx[movie_id]
             size == Len(self.movie_ids)
             similarities == self.item_similarity[idx]
             similar_indices == Take(ArgsortReversed(similarities, size), n)
         IN RetList([p \in DOMAIN similar_indices |->
               [movieId |-> self.idx_to_movie[similar_indices[p]],
                similarity |-> similarities[similar_indices[p]]]])

ItemGetSimilarItems(self, movie_id, n) ==
    IF ~self.is_fitted \/ movie_id \notin DOMAIN self.movie_to_idx THEN RetList(<<>>)
    ELSE LET idx == self.movie_to_idx[movie_id]
             size == Len(self.movie_ids)
         IN IF idx >= size THEN Raise("IndexError")
            ELSE LET similarities == self.item_similarity[idx]
                     similar_indices == Take(ArgsortReversed(similarities, size), n)
                 IN RetList([p \in DOMAIN similar_indices |->
                       [movieId |-> self.idx_to_movie[similar_indices[p]],
                        similarity |-> similarities[similar_indices[p]]]])

\* the weighted average over the (at most k) rated items with positive
\* similarity; "none" when there is none
ItemWeightedAverage(self, movie_idx, user_ratings, rated_indices) ==
    LET similarities == self.item_similarity[movie_idx]
        top == TopK(rated_indices, similarities, self.k)
        pos == {q \in DOMAIN top : similarities[top[q]] > 0}
        num == SumOver([q \in pos |-> similarities[top[q]] * user_ratings[top[q]]], pos)
        den == SumOver([q \in pos |-> similarities[top[q]]], pos)
    IN IF rated_indices = <<>> \/ pos = {} THEN RetNone
       ELSE RetFloat(Fl(num * HalfStar, den))

ItemPredictRating(self, user_id, movie_id) ==
    IF ~self.is_fitted THEN RetNone
    ELSE IF user_id \notin DOMAIN self.user_to_idx
            \/ movie_id \notin DOMAIN self.movie_to_idx THEN RetNone
    ELSE LET user_idx == self.user_to_idx[user_id]
             movie_idx == self.movie_to_idx[movie_id]
         IN IF user_idx >= Len(self.user_ids) \/ movie_idx >= Len(self.movie_ids)
            THEN Raise("IndexError")
            ELSE LET user_ratings == self.user_item_matrix[user_idx]
                     rated_indices == WherePositive(user_ratings, Len(self.movie_ids))
                     avg == ItemWeightedAverage(self, movie_idx, user_ratings, rated_indices)
                 IN IF avg.kind = "none" THEN RetNone
                    ELSE RetFloat(Clip(avg.value))

\* _predict_for_idx: the same average, not clipped
ItemPredictForIdx(self, user_idx, movie_idx, user_ratings, rated_indices) ==
    ItemWeightedAverage(self, movie_idx, user_ratings, rated_indices)

ItemRecommend(self, user_id, n, exclude) ==
    IF ~self.is_fitted THEN RetList(<<>>)
    ELSE IF user_id \notin DOMAIN self.user_to_idx
         THEN RetList(PopularItems(self, n, exclude))
    ELSE LET user_idx == self.user_to_idx[user_id]
             n_items == Len(self.movie_ids)
         IN IF user_idx >= Len(self.user_ids) THEN Raise("IndexError")
            ELSE LET user_ratings == self.user_item_matrix[user_idx]
                     rated_indices == WherePositive(user_ratings, n_items)
                     skip == exclude \cup {self.idx_to_movie[j] : j \in Range(rated_indices)}
                     pred(j) == ItemPredictForIdx(self, user_idx, j, user_ratings,
                                                  rated_indices)
                     cand == SortedSeq({j \in 0..(n_items-1) :
                                          /\ self.idx_to_movie[j] \notin skip
                                          /\ pred(j).kind = "float"})
                     predictions == [q \in DOMAIN cand |->
                                       [movieId |-> self.idx_to_movie[cand[q]],
                                        score |-> pred(cand[q]).value]]
                 IN RetList(TopPredictions(predictions, Max2(n, 0), "item_based"))

-----------------------------------------------------------------------------
(* UserBasedModel *)

UserNew(k, min_common) ==
    [is_fitted |-> FALSE, k |-> k, min_common |-> min_common,
     ratings_df |-> <<>>, movies_df |-> <<>>,
     user_ids |-> <<>>, movie_ids |-> <<>>,
     user_to_idx |-> EmptyDict, idx_to_user |-> EmptyDict,
     movie_to_idx |-> EmptyDict, idx_to_movie |-> EmptyDict,
     user_item_matrix |-> EmptyDict, user_means |-> EmptyDict,
     user_similarity |-> EmptyDict]

\* _compute_user_means: sum / count of the non-zero entries of each row, in
\* ticks; 3.0 for a row without ratings
UserMeans(matrix, n_users, n_items) ==
    [i \in 0..(n_users-1) |->
        LET rated == {j \in 0..(n_items-1) : matrix[i][j] > 0}
            sums == SumOver(matrix[i], 0..(n_items-1))
            counts == Cardinality(rated)
        IN IF counts > 0 THEN Fl(sums * HalfStar, counts) ELSE 3 * One]

UserFit(self, ratings, movies) ==
    LET user_ids == SortedSeq({ratings[r].userId : r \in DOMAIN ratings})
        movie_ids == SortedSeq({ratings[r].movieId : r \in DOMAIN ratings})
        user_to_idx == DictUpdateIdx(self.user_to_idx, user_ids)
        movie_to_idx == DictUpdateIdx(self.movie_to_idx, movie_ids)
        n_users == Len(user_ids)
        n_items == Len(movie_ids)
        matrix == CsrMatrix(ratings, user_to_idx, movie_to_idx, n_users, n_items)
    IN [self EXCEPT
          !.ratings_df = ratings, !.movies_df = movies,
          !.user_ids = user_ids, !.movie_ids = movie_ids,
          !.user_to_idx = user_to_idx,
          !.idx_to_user = DictUpdateKey(self.idx_to_user, user_ids),
          !.movie_to_idx = movie_to_idx,
          !.idx_to_movie = DictUpdateKey(self.idx_to_movie, movie_ids),
          !.user_item_matrix = matrix,
          !.user_means = UserMeans(matrix, n_users, n_items),
          !.user_similarity = CenteredSimilarity(matrix, n_users, n_items),
          !.is_fitted = TRUE]

\* user mean + weighted average of the neighbours' deviations from their own
\* means, clipped; neighbours is a sequence of user positions, all of which
\* rated the movie
UserDeviationPrediction(self, user_idx, movie_idx, neighbours) ==
    LET sims == self.user_similarity[user_idx]
        nb == DOMAIN neighbours
        dev(q) == self.user_item_matrix[neighbours[q]][movie_idx] * HalfStar
                  - self.user_means[neighbours[q]]
        num == SumOver([q \in nb |-> sims[neighbours[q]] * dev(q)], nb)
        den == SumOver([q \in nb |-> sims[neighbours[q]]], nb)
    IN Clip(self.user_means[user_idx] + Fl(num, den))

UserPredictRating(self, user_id, movie_id) ==
    IF ~self.is_fitted THEN RetNone
    ELSE IF user_id \notin DOMAIN self.user_to_idx
            \/ movie_id \notin DOMAIN self.movie_to_idx THEN RetNone
    ELSE LET user_idx == self.user_to_idx[user_id]
             movie_idx == self.movie_to_idx[movie_id]
             n_users == Len(self.user_ids)
         IN IF user_idx >= n_users \/ movie_idx >= Len(self.movie_ids)
            THEN Raise("IndexError")
            ELSE LET column == [i \in 0..(n_users-1) |->
                                  self.user_item_matrix[i][movie_idx]]
                     rated_indices == WherePositive(column, n_users)
                     sims == self.user_similarity[user_idx]
                     top == TopK(rated_indices, sims, self.k)
                     neighbours == SelectSeq(top, LAMBDA i : sims[i] > 0)
                 IN IF rated_indices = <<>> \/ neighbours = <<>>
                    THEN RetFloat(self.user_means[user_idx])
                    ELSE RetFloat(UserDeviationPrediction(self, user_idx, movie_idx,
                                                          neighbours))

UserRecommend(self, user_id, n, exclude) ==
    IF ~self.is_fitted THEN RetList(<<>>)
    ELSE IF user_id \notin DOMAIN self.user_to_idx
         THEN RetList(PopularItems(self, n, exclude))
    ELSE LET user_idx == self.user_to_idx[user_id]
             n_users == Len(self.user_ids)
             n_items == Len(self.movie_ids)
         IN IF user_idx >= n_users THEN Raise("IndexError")
            ELSE LET user_ratings == self.user_item_matrix[user_idx]
                     rated_indices == WherePositive(user_ratings, n_items)
                     skip == exclude \cup {self.idx_to_movie[j] : j \in Range(rated_indices)}
                     sims == self.user_similarity[user_idx]
                     similar_indices ==
                         SelectSeq(Take(ArgsortReversed(sims, n_users), self.k),
                                   LAMBDA i : sims[i] > 0)
                     raters(j) == SelectSeq(similar_indices,
                                     LAMBDA i : self.user_item_matrix[i][j] > 0)
                     cand == SortedSeq({j \in 0..(n_items-1) :
                                          /\ self.idx_to_movie[j] \notin skip
                                          /\ raters(j) # <<>>})
                     predictions ==
                         [q \in DOMAIN cand |->
                            [movieId |-> self.idx_to_movie[cand[q]],
                             score |-> UserDeviationPrediction(self, user_idx, cand[q],
                                                               raters(cand[q]))]]
                 IN IF similar_indices = <<>>
                    THEN RetList(PopularItems(self, n, skip))
                    ELSE RetList(TopPredictions(predictions, Max2(n, 0), "user_based"))

-----------------------------------------------------------------------------
(* HybridModel *)

\* A sub-model slot before fit
None == [none |-> TRUE]
IsNone(x) == "none" \in DOMAIN x

\* Faulty weights, which keep the arguments as given over their total.
StoredAsGiven(content_weight, item_weight, user_weight) ==
    [content |-> content_weight, item |-> item_weight, user |-> user_weight,
     den |-> content_weight + item_weight + user_weight]

\* The three weights after the divisions by their total, as the exact
\* fractions content/den, item/den, user/den in lowest terms with den > 0
\* (total # 0).
Normalized(content_weight, item_weight, user_weight) ==
    LET total == content_weight + item_weight + user_weight
        g == Gcd(Gcd(content_weight, item_weight), user_weight)
        sgn == Sign(total)
    IN [content |-> (sgn * content_weight) \div g,
        item |-> (sgn * item_weight) \div g,
        user |-> (sgn * user_weight) \div g,
        den |-> Abs(total) \div g]

HybridNew(content_weight, item_weight, user_weight) ==
    [weights |-> Normalized(content_weight, item_weight, user_weight),
     content_model |-> None, item_model |-> None, user_model |-> None,
     movies_df |-> <<>>, ratings_df |-> <<>>, is_fitted |-> FALSE]

\* fit with pre-fitted models (None for a slot makes fit build and fit its own)
HybridFit(self, movies, ratings, content_model, item_model, user_model) ==
    [self EXCEPT
       !.movies_df = movies, !.ratings_df = ratings,
       !.content_model = IF ~IsNone(content_model) THEN content_model
                         ELSE ContentFit(ContentNew, movies),
       !.item_model = IF ~IsNone(item_model) THEN item_model
                      ELSE ItemFit(ItemNew(K, MinRatings), ratings, movies),
       !.user_model = IF ~IsNone(user_model) THEN user_model
                      ELSE UserFit(UserNew(K, MinCommon), ratings, movies),
       !.is_fitted = TRUE]

\* set_weights: the total, then the three divisions; a zero total raises
\* ZeroDivisionError at the first division, before any assignment
HybridSetWeights(self, content_weight, item_weight, user_weight) ==
    IF content_weight + item_weight + user_weight = 0 THEN self
    ELSE [self EXCEPT !.weights = Normalized(content_weight, item_weight, user_weight)]

HybridSetWeightsResult(content_weight, item_weight, user_weight) ==
    IF content_weight + item_weight + user_weight = 0
    THEN Raise("ZeroDivisionError") ELSE RetNone

\* _get_user_ratings: the user's rows of the rating log as a rated list
GetUserRatings(self, user_id) ==
    LET mine == SelectSeq(self.ratings_df, LAMBDA row : row.userId = user_id)
    IN [i \in DOMAIN mine |-> Rated(mine[i].movieId, mine[i].rating)]

\* A faulty blend, which divides by the total of all three weights.
BlendByTotal(weights, scores) ==
    Fl(SumOver([s \in DOMAIN scores |-> scores[s] * weights[s]], DOMAIN scores),
       weights.den)

\* sum of scores[s] * weight[s] over the sources present, divided by the sum
\* of their weights when that sum is positive
Blend(weights, scores) ==
    LET present == DOMAIN scores
        num == SumOver([s \in present |-> scores[s] * weights[s]], present)
        weight_sum == SumOver([s \in present |-> weights[s]], present)
    IN IF weight_sum > 0 THEN Fl(num, weight_sum) ELSE Fl(num, weights.den)

\* the keys of a dict filled from three result lists in turn, in insertion order
RECURSIVE InsertionOrder(_, _)
InsertionOrder(ids, seen) ==
    IF ids = <<>> THEN <<>>
    ELSE IF Head(ids) \in seen THEN InsertionOrder(Tail(ids), seen)
    ELSE <<Head(ids)>> \o InsertionOrder(Tail(ids), seen \cup {Head(ids)})

IdsOf(list) == [i \in DOMAIN list |-> list[i].movieId]

\* the score a result list gives a movie (the last entry for it wins)
ScoreIn(list, m, field) ==
    LET i == CHOOSE k \in DOMAIN list :
                list[k].movieId = m /\ \A j \in DOMAIN list : list[j].movieId = m => j <= k
    IN list[i][field]

\* the scores dict of a candidate: one entry per source whose list has it
Components(lists, m, field) ==
    LET has == {s \in DOMAIN lists : m \in Range(IdsOf(lists[s]))}
    IN [s \in has |-> ScoreIn(lists[s], m, field)]

\* A faulty average, which gives up as soon as one sub-model abstains.
HybridAverageAllOrNothing(weights, asked) ==
    LET num == SumOver([s \in DOMAIN asked |-> asked[s].value * weights[s]], DOMAIN asked)
    IN IF \E s \in DOMAIN asked : asked[s].kind # "float" THEN RetNone
       ELSE RetFloat(Clip(Fl(num, weights.den)))

\* predictions, weights and np.average of predict_rating
HybridAverage(weights, asked) ==
    LET have == {s \in DOMAIN asked : asked[s].kind = "float"}
        num == SumOver([s \in have |-> asked[s].value * weights[s]], have)
        weight_sum == SumOver([s \in have |-> weights[s]], have)
    IN IF \E s \in DOMAIN asked : asked[s].kind = "raise"
       THEN Raise("IndexError")
       ELSE IF have = {} THEN RetNone
       ELSE IF weight_sum = 0 THEN [kind |-> "nan", value |-> 0]
       ELSE RetFloat(Clip(Fl(Sign(weight_sum) * num, Abs(weight_sum))))

HybridPredictRating(self, user_id, movie_id, user_rated_movies) ==
    IF ~self.is_fitted THEN RetNone
    ELSE HybridAverage(self.weights,
                  [content |-> IF ~IsNone(self.content_model) /\ user_rated_movies # <<>>
                                   THEN ContentPredictRating(self.content_model, movie_id,
                                                             user_rated_movies)
                                   ELSE RetNone,
                       item |-> IF ~IsNone(self.item_model)
                                THEN ItemPredictRating(self.item_model, user_id, movie_id)
                                ELSE RetNone,
                       user |-> IF ~IsNone(self.user_model)
                                THEN UserPredictRating(self.user_model, user_id, movie_id)
                                ELSE RetNone])

\* the exclude set object shared with the content model, after the call
HybridExcludeAfter(self, user_id, exclude, rated_given, rated) ==
    IF ~self.is_fitted \/ IsNone(self.content_model) THEN exclude
    ELSE ContentExcludeAfter(self.content_model,
                             IF rated_given THEN rated ELSE GetUserRatings(self, user_id),
                             exclude)

\* the three lists the sub-models hand to recommend
HybridSubLists(self, user_id, n, exclude, rated_given, rated, garbage) ==
    LET user_rated_movies == IF rated_given THEN rated ELSE GetUserRatings(self, user_id)
        shared == HybridExcludeAfter(self, user_id, exclude, rated_given, rated)
    IN [content |-> IF IsNone(self.content_model) THEN RetList(<<>>)
                    ELSE ContentRecommend(self.content_model, user_rated_movies, n * 2,
                                          exclude, garbage),
        item |-> IF IsNone(self.item_model) THEN RetList(<<>>)
                 ELSE ItemRecommend(self.item_model, user_id, n * 2, shared),
        user |-> IF IsNone(self.user_model) THEN RetList(<<>>)
                 ELSE UserRecommend(self.user_model, user_id, n * 2, shared)]

\* the merge of sub-model lists: blended value per candidate, stable sort by
\* it, the first n
MergedRow(weights, m, scores) ==
    [key |-> Blend(weights, scores), movieId |-> m, scores |-> scores]

KeptIds(ids, skip) == SelectIdx(ids, {i \in DOMAIN ids : ids[i] \notin skip}, 1)

MergedRows(weights, lists, kept, field) ==
    [i \in DOMAIN kept |-> MergedRow(weights, kept[i], Components(lists, kept[i], field))]

HybridMerge(self, lists, order, skip, n, field) ==
    Take(SortDescStable(MergedRows(self.weights, lists,
                                   KeptIds(InsertionOrder(order, {}), skip), field)), n)

\* the result of a merge, or the exception a sub-model raised
HybridCombine(self, subs, ids, skip, n, field) ==
    IF \E s \in DOMAIN subs : subs[s].kind = "raise"
    THEN Raise(subs[CHOOSE s \in DOMAIN subs : subs[s].kind = "raise"].value)
    ELSE RetList(HybridMerge(self, [s \in DOMAIN subs |-> subs[s].value],
                             ids, skip, n, field))

\* the candidate ids in the order the sub-models list them
CandidateIds(subs, sources) ==
    LET RECURSIVE Cat(_)
        Cat(i) == IF i > Len(sources) THEN <<>>
                  ELSE (IF subs[sources[i]].kind = "list"
                        THEN IdsOf(subs[sources[i]].value) ELSE <<>>) \o Cat(i + 1)
    IN Cat(1)

HybridRecommendRows(merged) ==
    IF merged.kind # "list" THEN merged
    ELSE RetList([i \in DOMAIN merged.value |->
            [movieId |-> merged.value[i].movieId, score |-> merged.value[i].key,
             method |-> "hybrid", component_scores |-> merged.value[i].scores]])

HybridRecommendOf(self, subs, skip, n) ==
    HybridRecommendRows(
        HybridCombine(self, subs, CandidateIds(subs, <<"content", "item", "user">>),
                      skip, n, "score"))

HybridRecommend(self, user_id, n, exclude, rated_given, rated, garbage) ==
    IF ~self.is_fitted THEN RetList(<<>>)
    ELSE HybridRecommendOf(self,
             HybridSubLists(self, user_id, n, exclude, rated_given, rated, garbage),
             HybridExcludeAfter(self, user_id, exclude, rated_given, rated), n)

HybridSimilarRows(merged) ==
    IF merged.kind # "list" THEN merged
    ELSE RetList([i \in DOMAIN merged.value |->
            [movieId |-> merged.value[i].movieId, similarity |-> merged.value[i].key,
             method |-> "hybrid"]])

HybridSimilarOf(self, subs, n) ==
    HybridSimilarRows(
        HybridCombine(self, subs, CandidateIds(subs, <<"content", "item">>),
                      {}, n, "similarity"))

HybridGetSimilarMovies(self, movie_id, n) ==
    IF ~self.is_fitted THEN RetList(<<>>)
    ELSE HybridSimilarOf(self,
             [content |-> IF IsNone(self.content_model) THEN RetList(<<>>)
                          ELSE ContentGetSimilar(self.content_model, movie_id, n * 2, {}),
              item |-> IF IsNone(self.item_model) THEN RetList(<<>>)
                       ELSE ItemGetSimilarItems(self.item_model, movie_id, n * 2)],
             n)

-----------------------------------------------------------------------------
(* The training script and the callers of the models *)

\* no call in progress
Idle == [op |-> "idle"]

\* constructor arguments of the hybrid model: the training script's
\* 0.3/0.35/0.35, a combiner that ignores the content model, and one that
\* counts the content model's opinion negatively
InitWeights == {<<6, 7, 7>>, <<0, 1, 1>>, <<-1, 1, 1>>}

\* what an unwritten cell of a fresh array can hold after nan_to_num
GarbageValues == {-(2 * One), 0, 2 * One}

\* the possible contents of the score array's unwritten cells (0 stands in
\* the cells that are written)
GarbageFor(self, rated) ==
    IF "is_fitted" \notin DOMAIN self THEN {EmptyDict}
    ELSE LET cells == 0..(Len(self.movies_df) - 1)
             free == IF rated = <<>> THEN {} ELSE ContentUnwritten(self, rated)
         IN {g \in [cells -> GarbageValues] : \A j \in cells \ free : g[j] = 0}

\* the model names of the routes, and a models directory without files (0 = no
\* file of that name)
ModelNames == {"hybrid", "item_based"}
NoFiles == [name \in ModelNames |-> 0]

Init ==
    /\ movies_df \in Catalogs
    /\ ratings_df \in RatingLogs(movies_df)
    /\ cb = ContentNew
    /\ ib = ItemNew(K, MinRatings)
    /\ ub = UserNew(K, MinCommon)
    /\ \E w \in InitWeights : hy = HybridNew(w[1], w[2], w[3])
    /\ pc = "content"
    /\ n_fits = [content |-> 0, item |-> 0, user |-> 0]
    /\ call = Idle
    /\ result = RetNone
    /\ exclude_arg = {}
    /\ model_files = NoFiles
    /\ model_cache = EmptyDict

\* train_models.main: content, item, user, then the hybrid over the three
FitContent ==
    /\ pc = "content" /\ call = Idle
    /\ cb' = ContentFit(cb, movies_df)
    /\ n_fits' = [n_fits EXCEPT !.content = @ + 1]
    /\ pc' = "item"
    /\ UNCHANGED <<movies_df, ratings_df, ib, ub, hy, call, result, exclude_arg, model_files, model_cache>>

FitItem ==
    /\ pc = "item" /\ call = Idle
    /\ ib' = ItemFit(ib, ratings_df, movies_df)
    /\ n_fits' = [n_fits EXCEPT !.item = @ + 1]
    /\ pc' = "user"
    /\ UNCHANGED <<movies_df, ratings_df, cb, ub, hy, call, result, exclude_arg, model_files, model_cache>>

FitUser ==
    /\ pc = "user" /\ call = Idle
    /\ ub' = UserFit(ub, ratings_df, movies_df)
    /\ n_fits' = [n_fits EXCEPT !.user = @ + 1]
    /\ pc' = "hybrid"
    /\ UNCHANGED <<movies_df, ratings_df, cb, ib, hy, call, result, exclude_arg, model_files, model_cache>>

FitHybrid ==
    /\ pc = "hybrid" /\ call = Idle
    /\ hy' = HybridFit(hy, movies_df, ratings_df, cb, ib, ub)
    /\ pc' = "done"
    /\ UNCHANGED <<movies_df, ratings_df, cb, ib, ub, n_fits, call, result, exclude_arg, model_files, model_cache>>

\* what a query leaves alone
objects == <<movies_df, ratings_df, cb, ib, ub, hy, pc, n_fits, model_files, model_cache>>

\* the caller takes the result
Return ==
    /\ call # Idle
    /\ call' = Idle
    /\ result' = RetNone
    /\ exclude_arg' = {}
    /\ UNCHANGED objects

\* Each call of a query method records its arguments, the value returned and
\* the caller's exclude set as the call leaves it.
ContentGetSimilarMovies ==
    /\ call = Idle
    /\ \E m \in Movies, n \in Ns, ex \in Excludes :
         /\ call' = [op |-> "content.get_similar_movies", movie_id |-> m, n |-> n,
                     exclude |-> ex]
         /\ result' = ContentGetSimilar(cb, m, n, ex)
         /\ exclude_arg' = ex
    /\ UNCHANGED objects

ContentRecommendForUser ==
    /\ call = Idle
    /\ \E rated \in RatedLists, n \in Ns, ex \in Excludes :
         \E garbage \in GarbageFor(cb, rated) :
           /\ call' = [op |-> "content.recommend_for_user", rated |-> rated, n |-> n,
                       exclude |-> ex, garbage |-> garbage]
           /\ result' = ContentRecommend(cb, rated, n, ex, garbage)
           /\ exclude_arg' = ContentExcludeAfter(cb, rated, ex)
    /\ UNCHANGED objects

ContentPredict ==
    /\ call = Idle
    /\ \E m \in Movies, rated \in RatedLists :
         /\ call' = [op |-> "content.predict_rating", movie_id |-> m, rated |-> rated]
         /\ result' = ContentPredictRating(cb, m, rated)
    /\ exclude_arg' = {}
    /\ UNCHANGED objects

ItemGetSimilar ==
    /\ call = Idle
    /\ \E m \in Movies, n \in Ns :
         /\ call' = [op |-> "item.get_similar_items", movie_id |-> m, n |-> n]
         /\ result' = ItemGetSimilarItems(ib, m, n)
    /\ exclude_arg' = {}
    /\ UNCHANGED objects

ItemPredict ==
    /\ call = Idle
    /\ \E u \in Users, m \in Movies :
         /\ call' = [op |-> "item.predict_rating", user_id |-> u, movie_id |-> m]
         /\ result' = ItemPredictRating(ib, u, m)
    /\ exclude_arg' = {}
    /\ UNCHANGED objects

ItemRecommendCall ==
    /\ call = Idle
    /\ \E u \in Users, n \in Ns, ex \in Excludes :
         /\ call' = [op |-> "item.recommend", user_id |-> u, n |-> n, exclude |-> ex]
         /\ result' = ItemRecommend(ib, u, n, ex)
         /\ exclude_arg' = ex
    /\ UNCHANGED objects

UserPredict ==
    /\ call = Idle
    /\ \E u \in Users, m \in Movies :
         /\ call' = [op |-> "user.predict_rating", user_id |-> u, movie_id |-> m]
         /\ result' = UserPredictRating(ub, u, m)
    /\ exclude_arg' = {}
    /\ UNCHANGED objects

UserRecommendCall ==
    /\ call = Idle
    /\ \E u \in Users, n \in Ns, ex \in Excludes :
         /\ call' = [op |-> "user.recommend", user_id |-> u, n |-> n, exclude |-> ex]
         /\ result' = UserRecommend(ub, u, n, ex)
         /\ exclude_arg' = ex
    /\ UNCHANGED objects

HybridPredict ==
    /\ call = Idle
    /\ \E u \in Users, m \in Movies, rated \in RatedLists :
         /\ call' = [op |-> "hybrid.predict_rating", user_id |-> u, movie_id |-> m,
                     rated |-> rated]
         /\ result' = HybridPredictRating(hy, u, m, rated)
    /\ exclude_arg' = {}
    /\ UNCHANGED objects

\* user_rated_movies is either passed (rated_given) or left None, which makes
\* recommend read the user's rows of the rating log
HybridRecommendCall ==
    /\ call = Idle
    /\ \E u \in Users, n \in Ns, ex \in Excludes, rated_given \in BOOLEAN :
         \E rated \in IF rated_given THEN RatedLists ELSE {<<>>} :
           \E garbage \in GarbageFor(hy.content_model,
                             IF rated_given THEN rated ELSE GetUserRatings(hy, u)) :
             /\ call' = [op |-> "hybrid.recommend", user_id |-> u, n |-> n,
                         exclude |-> ex, rated_given |-> rated_given, rated |-> rated,
                         garbage |-> garbage]
             /\ result' = HybridRecommend(hy, u, n, ex, rated_given, rated, garbage)
             /\ exclude_arg' = HybridExcludeAfter(hy, u, ex, rated_given, rated)
    /\ UNCHANGED objects

HybridGetSimilar ==
    /\ call = Idle
    /\ \E m \in Movies, n \in Ns :
         /\ call' = [op |-> "hybrid.get_similar_movies", movie_id |-> m, n |-> n]
         /\ result' = HybridGetSimilarMovies(hy, m, n)
    /\ exclude_arg' = {}
    /\ UNCHANGED objects

Next ==
    \/ FitContent \/ FitItem \/ FitUser \/ FitHybrid
    \/ ContentGetSimilarMovies \/ ContentRecommendForUser \/ ContentPredict
    \/ ItemGetSimilar \/ ItemPredict \/ ItemRecommendCall
    \/ UserPredict \/ UserRecommendCall
    \/ HybridPredict \/ HybridRecommendCall \/ HybridGetSimilar
    \/ Return

\* The engine as the repository runs it: each model object is fitted once by
\* the training script and queried by its callers.
Spec == Init /\ [][Next]_vars

-----------------------------------------------------------------------------
(* Fitting the same objects again *)

\* The database has moved on and the training steps run again on the model
\* objects that are already fitted.
Retrain ==
    /\ pc = "hybrid" /\ call = Idle
    /\ n_fits.content < MaxFits
    /\ movies_df' \in Catalogs
    /\ ratings_df' \in RatingLogs(movies_df')
    /\ pc' = "content"
    /\ UNCHANGED <<cb, ib, ub, hy, n_fits, call, result, exclude_arg, model_files, model_cache>>

RefitNext == FitContent \/ FitItem \/ FitUser \/ Retrain

RefitSpec == Init /\ [][RefitNext]_vars

-----------------------------------------------------------------------------
(* The weights of the hybrid model *)

WeightArgs == (-1)..MaxWeightArg

WeightsInit ==
    /\ Init
    /\ Len(movies_df) = 3
    /\ ratings_df = LogOf(Table(<<10, 10, 2, 0>>, <<2, 2, 10, 0>>, <<10, 0, 2, 0>>),
                        Movies, AllCells)
    /\ hy = HybridNew(6, 7, 7)

\* HybridModel(a, b, c): the object replaces hy unless the constructor raises
Construct ==
    /\ call = Idle
    /\ \E a \in WeightArgs, b \in WeightArgs, c \in WeightArgs :
         /\ call' = [op |-> "hybrid.__init__", args |-> <<a, b, c>>]
         /\ hy' = IF a + b + c = 0 THEN hy ELSE HybridNew(a, b, c)
         /\ result' = HybridSetWeightsResult(a, b, c)
    /\ exclude_arg' = {}
    /\ UNCHANGED <<movies_df, ratings_df, cb, ib, ub, pc, n_fits, model_files, model_cache>>

SetWeights ==
    /\ call = Idle
    /\ \E a \in WeightArgs, b \in WeightArgs, c \in WeightArgs :
         /\ call' = [op |-> "hybrid.set_weights", args |-> <<a, b, c>>]
         /\ hy' = HybridSetWeights(hy, a, b, c)
         /\ result' = HybridSetWeightsResult(a, b, c)
    /\ exclude_arg' = {}
    /\ UNCHANGED <<movies_df, ratings_df, cb, ib, ub, pc, n_fits, model_files, model_cache>>

WeightsNext == Construct \/ SetWeights \/ Return

WeightsSpec == WeightsInit /\ [][WeightsNext]_vars

-----------------------------------------------------------------------------
(* Properties *)

ContentOps == {"content.get_similar_movies", "content.recommend_for_user",
               "content.predict_rating"}
ItemOps == {"item.get_similar_items", "item.recommend", "item.predict_rating"}
UserOps == {"user.recommend", "user.predict_rating"}
HybridOps == {"hybrid.get_similar_movies", "hybrid.recommend", "hybrid.predict_rating"}
QueryOps == ContentOps \cup ItemOps \cup UserOps \cup HybridOps
SimilarOps == {"content.get_similar_movies", "item.get_similar_items",
               "hybrid.get_similar_movies"}
PredictOps == {"content.predict_rating", "item.predict_rating", "user.predict_rating",
               "hybrid.predict_rating"}
RecommendOps == {"content.recommend_for_user", "item.recommend", "user.recommend",
                 "hybrid.recommend"}

\* whether the model that the call in progress addresses has been fitted
TargetFitted ==
    CASE call.op \in ContentOps -> cb.is_fitted
      [] call.op \in ItemOps -> ib.is_fitted
      [] call.op \in UserOps -> ub.is_fitted
      [] call.op \in HybridOps -> hy.is_fitted
      [] OTHER -> TRUE

CatalogIds == Range(MovieIds(movies_df))

\* C1: a public query method called on a model on which fit never completed
\* reports the not-fitted condition (it raises); it never hands back a value
\* such as an empty list or "no prediction".
C1_UnfittedQueryReportsNotFitted ==
    (call.op \in QueryOps /\ ~TargetFitted) => result.kind = "raise"

IndexExact(to_idx, from_idx, ids) ==
    /\ DOMAIN to_idx = Range(ids)
    /\ DOMAIN from_idx = 0..(Len(ids) - 1)

\* C2: after any sequence of fits of the same content, item or user model the
\* identifier index holds exactly the IDs (and the positions) of the snapshot
\* of the most recent fit.
C2_IndexIsLatestSnapshot ==
    /\ cb.is_fitted =>
         IndexExact(cb.movie_id_to_idx, cb.idx_to_movie_id, MovieIds(cb.movies_df))
    /\ ib.is_fitted =>
         /\ IndexExact(ib.movie_to_idx, ib.idx_to_movie, ib.movie_ids)
         /\ IndexExact(ib.user_to_idx, ib.idx_to_user, ib.user_ids)
    /\ ub.is_fitted =>
         /\ IndexExact(ub.movie_to_idx, ub.idx_to_movie, ub.movie_ids)
         /\ IndexExact(ub.user_to_idx, ub.idx_to_user, ub.user_ids)

ZeroDiagonal(sim, n) == \A i \in 0..(n - 1) : sim[i][i] = 0

\* C3: the fitted similarity matrix of the content, item and user model has a
\* zero diagonal.
C3_ZeroDiagonal ==
    /\ cb.is_fitted => ZeroDiagonal(cb.similarity_matrix, Len(cb.movies_df))
    /\ ib.is_fitted => ZeroDiagonal(ib.item_similarity, Len(ib.movie_ids))
    /\ ub.is_fitted => ZeroDiagonal(ub.user_similarity, Len(ub.user_ids))

\* the movies other than m that the model asked for similar movies knows
OthersOf(ids, known, m) == IF m \in known THEN Range(ids) \ {m} ELSE {}

SimilarOthers ==
    CASE call.op = "content.get_similar_movies" ->
           OthersOf(MovieIds(cb.movies_df), DOMAIN cb.movie_id_to_idx, call.movie_id)
           \ call.exclude
      [] call.op = "item.get_similar_items" ->
           OthersOf(ib.movie_ids, DOMAIN ib.movie_to_idx, call.movie_id)
      [] OTHER ->
           OthersOf(MovieIds(hy.content_model.movies_df),
                    DOMAIN hy.content_model.movie_id_to_idx, call.movie_id)
           \cup OthersOf(hy.item_model.movie_ids, DOMAIN hy.item_model.movie_to_idx,
                         call.movie_id)

\* C4: a similar-movies query for movie m with limit n on a fitted model
\* returns a list without m and with at most n entries, and all the other
\* movies when there are fewer than n of them.
C4_SimilarExcludesSelf ==
    (call.op \in SimilarOps /\ TargetFitted /\ result.kind = "list") =>
        /\ call.movie_id \notin Range(IdsOf(result.value))
        /\ Len(result.value) <= call.n
        /\ Cardinality(SimilarOthers) < call.n =>
               SimilarOthers \subseteq Range(IdsOf(result.value))

\* C5: every value predict_rating returns, other than "no prediction", is a
\* rating between 0.5 and 5.0, for each of the four models.
C5_PredictionInRange ==
    (call.op \in PredictOps /\ result.kind # "none") =>
        /\ result.kind = "float"
        /\ MinRating <= result.value
        /\ result.value <= MaxRating

C7_WeightsNormalized ==
    /\ hy.weights.content >= 0
    /\ hy.weights.item >= 0
    /\ hy.weights.user >= 0
    /\ hy.weights.content + hy.weights.item + hy.weights.user = hy.weights.den

ContentAbstains ==
    ContentPredictRating(hy.content_model, call.movie_id, call.rated).kind = "none"
ItemAbstains ==
    ItemPredictRating(hy.item_model, call.user_id, call.movie_id).kind = "none"
UserAbstains ==
    UserPredictRating(hy.user_model, call.user_id, call.movie_id).kind = "none"

\* C9: the fitted hybrid model's predict_rating returns "no prediction"
\* exactly when the content, the item and the user model all abstain.
C9_NoPredictionIffAllAbstain ==
    (call.op = "hybrid.predict_rating" /\ hy.is_fitted) =>
        (result.kind = "none" <=> (ContentAbstains /\ ItemAbstains /\ UserAbstains))

\* only the content model predicts, and the hybrid returns a value
C9_OneSubModelSuffices ==
    /\ call.op = "hybrid.predict_rating"
    /\ hy.is_fitted
    /\ ~ContentAbstains /\ ItemAbstains /\ UserAbstains
    /\ result.kind = "float"

\* the lists the sub-models returned to the recommend call in progress
RecommendSubLists ==
    HybridSubLists(hy, call.user_id, call.n, call.exclude, call.rated_given,
                   call.rated, call.garbage)

Contributors(subs, m) == {s \in DOMAIN subs : m \in Range(IdsOf(subs[s].value))}

WeightedSum(subs, m) ==
    SumOver([s \in Contributors(subs, m) |->
               ScoreIn(subs[s].value, m, "score") * hy.weights[s]],
            Contributors(subs, m))

WeightSum(subs, m) ==
    SumOver([s \in Contributors(subs, m) |-> hy.weights[s]], Contributors(subs, m))

\* the score of a candidate as the average of its contributors' scores
AverageScore(subs, row) ==
    /\ DOMAIN row.component_scores = Contributors(subs, row.movieId)
    /\ WeightSum(subs, row.movieId) # 0
    /\ row.score = Fl(Sign(WeightSum(subs, row.movieId)) * WeightedSum(subs, row.movieId),
                      Abs(WeightSum(subs, row.movieId)))

\* the same, with the plain weighted sum where the contributors' weights do
\* not add up to a positive number
AverageOrSumScore(subs, row) ==
    /\ DOMAIN row.component_scores = Contributors(subs, row.movieId)
    /\ row.score = IF WeightSum(subs, row.movieId) > 0
                   THEN Fl(WeightedSum(subs, row.movieId), WeightSum(subs, row.movieId))
                   ELSE Fl(WeightedSum(subs, row.movieId), hy.weights.den)

\* C10: the final score of every candidate of HybridModel.recommend is the
\* weighted average sum(w_s * score_s) / sum(w_s) over exactly the sub-models
\* that returned the candidate.
C10_ScoreIsWeightedAverage ==
    (call.op = "hybrid.recommend" /\ hy.is_fitted /\ result.kind = "list") =>
        \A i \in DOMAIN result.value : AverageScore(RecommendSubLists, result.value[i])

\* C10, amended: the final score is that weighted average when the weights of
\* the sub-models that returned the candidate sum to a positive number, and
\* the weighted sum sum(w_s * score_s) itself otherwise.
C10_ScoreIsAverageOrSum ==
    (call.op = "hybrid.recommend" /\ hy.is_fitted /\ result.kind = "list") =>
        \A i \in DOMAIN result.value :
            AverageOrSumScore(RecommendSubLists, result.value[i])

\* a candidate that two of the three sub-models returned, scored with
\* positive weights
C10_TwoContributors ==
    /\ call.op = "hybrid.recommend" /\ hy.is_fitted /\ result.kind = "list"
    /\ hy.weights.content > 0
    /\ \E i \in DOMAIN result.value :
         /\ Cardinality(DOMAIN result.value[i].component_scores) = 2
         /\ result.value[i].score # 0

-----------------------------------------------------------------------------
(* Ranking of the hybrid recommendations *)

\* the candidates of the recommend call in progress, in the order in which
\* they were first collected: content results, item results, user results
CollectedIds(subs) == InsertionOrder(CandidateIds(subs, <<"content", "item", "user">>), {})

PosIn(seq, m) == CHOOSE i \in DOMAIN seq : seq[i] = m

BlendedOf(subs, m) ==
    Blend(hy.weights, Components([s \in DOMAIN subs |-> subs[s].value], m, "score"))

\* a returned row comes before candidate m in the ranking
RowBefore(subs, cands, row, m) ==
    \/ row.score > BlendedOf(subs, m)
    \/ /\ row.score = BlendedOf(subs, m)
       /\ PosIn(cands, row.movieId) < PosIn(cands, m)

RankedPrefix(rows, subs, cands, n) ==
    /\ Len(rows) <= n
    /\ \A i \in DOMAIN rows :
         /\ rows[i].movieId \in Range(cands)
         /\ rows[i].score = BlendedOf(subs, rows[i].movieId)
    /\ \A i, j \in DOMAIN rows :
         i < j => /\ rows[i].movieId # rows[j].movieId
                  /\ RowBefore(subs, cands, rows[i], rows[j].movieId)
    /\ \A m \in Range(cands) \ Range(IdsOf(rows)) :
         /\ Len(rows) = n
         /\ \A i \in DOMAIN rows : RowBefore(subs, cands, rows[i], m)

\* C11: HybridModel.recommend returns at most n rows with distinct movie IDs,
\* in non-increasing order of blended score, rows of equal score in the order
\* in which the candidates were first collected, and the rows are the first n
\* of that ordering of all the candidates the sub-models returned.
C11_StableRankingTruncated ==
    (call.op = "hybrid.recommend" /\ hy.is_fitted) =>
        /\ result.kind = "list"
        /\ RankedPrefix(result.value, RecommendSubLists,
                        CollectedIds(RecommendSubLists), call.n)

\* two candidates of equal blended score were returned in collection order
\* and a third candidate was cut off by n
C11_TieKeptAndTruncated ==
    /\ call.op = "hybrid.recommend" /\ hy.is_fitted /\ result.kind = "list"
    /\ call.n = 2 /\ Len(result.value) = 2
    /\ result.value[1].score = result.value[2].score
    /\ Cardinality(Range(CollectedIds(RecommendSubLists))) = 3


-----------------------------------------------------------------------------
(* Fallbacks of the item-based prediction *)

\* the positions of the items the user rated that are positively similar to
\* the movie, in the fitted item model
PositiveRated(self, user_id, movie_id) ==
    {j \in 0..(Len(self.movie_ids) - 1) :
        /\ self.user_item_matrix[self.user_to_idx[user_id]][j] > 0
        /\ self.item_similarity[self.movie_to_idx[movie_id]][j] > 0}

ItemCannotPredict(self, user_id, movie_id) ==
    \/ user_id \notin DOMAIN self.user_to_idx
    \/ movie_id \notin DOMAIN self.movie_to_idx
    \/ PositiveRated(self, user_id, movie_id) = {}

\* C12: the fitted item-based model's predict_rating returns "no prediction"
\* when the user or the movie is not in the index or no item the user rated
\* is positively similar to the movie, and a value in every other case, the
\* cut to the k most similar rated items notwithstanding.
C12_ItemNoPredictionCases ==
    (call.op = "item.predict_rating" /\ ib.is_fitted /\ ib.k >= 1) =>
        IF ItemCannotPredict(ib, call.user_id, call.movie_id)
        THEN result.kind = "none"
        ELSE result.kind = "float"

\* the user rated more than k items, one of them positively similar to the
\* movie, and a value came back
C12_CutKeepsPositive ==
    /\ call.op = "item.predict_rating" /\ ib.is_fitted
    /\ call.user_id \in DOMAIN ib.user_to_idx
    /\ call.movie_id \in DOMAIN ib.movie_to_idx
    /\ Cardinality({j \in 0..(Len(ib.movie_ids) - 1) :
                      ib.user_item_matrix[ib.user_to_idx[call.user_id]][j] > 0}) > ib.k
    /\ Cardinality(PositiveRated(ib, call.user_id, call.movie_id)) = 1
    /\ result.kind = "float"

-----------------------------------------------------------------------------
(* Recommendations of the item-based model for a known user *)

\* the movies the user has rated, by the fitted matrix
ItemRatedBy(self, user_id) ==
    {self.idx_to_movie[j] : j \in {x \in 0..(Len(self.movie_ids) - 1) :
                                     self.user_item_matrix[self.user_to_idx[user_id]][x] > 0}}

\* the prediction the model makes for the user and an indexed movie
ItemScoreOf(self, user_id, m) ==
    ItemPredictForIdx(self, self.user_to_idx[user_id], self.movie_to_idx[m],
                      self.user_item_matrix[self.user_to_idx[user_id]],
                      WherePositive(self.user_item_matrix[self.user_to_idx[user_id]],
                                    Len(self.movie_ids)))

\* the items outside exclude and the rated set for which a prediction exists
ItemEligible(self, user_id, exclude) ==
    {m \in Range(self.movie_ids) :
        /\ m \notin exclude
        /\ m \notin ItemRatedBy(self, user_id)
        /\ ItemScoreOf(self, user_id, m).kind = "float"}

TopScored(rows, self, user_id, eligible, n, method) ==
    /\ Len(rows) <= n
    /\ \A i \in DOMAIN rows :
         /\ rows[i].movieId \in eligible
         /\ rows[i].method = method
         /\ rows[i].score = ItemScoreOf(self, user_id, rows[i].movieId).value
    /\ \A i, j \in DOMAIN rows :
         i < j => /\ rows[i].movieId # rows[j].movieId
                  /\ rows[i].score >= rows[j].score
    /\ \A m \in eligible \ Range(IdsOf(rows)) :
         /\ Len(rows) = n
         /\ \A i \in DOMAIN rows : rows[i].score >= ItemScoreOf(self, user_id, m).value

\* C13: for a user the fitted item-based model knows, recommend returns at
\* most n rows, none excluded or already rated, in non-increasing order of
\* score, each tagged "item_based": the n highest-scored of the items outside
\* exclude and the rated set that have a prediction.
C13_ItemRecommendTopN ==
    (call.op = "item.recommend" /\ ib.is_fitted
       /\ call.user_id \in DOMAIN ib.user_to_idx) =>
        /\ result.kind = "list"
        /\ TopScored(result.value, ib, call.user_id,
                     ItemEligible(ib, call.user_id, call.exclude), call.n, "item_based")

\* two items have predictions of different value and n = 1 returned the
\* higher one
C13_HigherOfTwoReturned ==
    /\ call.op = "item.recommend" /\ ib.is_fitted
    /\ call.user_id \in DOMAIN ib.user_to_idx
    /\ call.n = 1
    /\ result.kind = "list" /\ Len(result.value) = 1
    /\ \E m \in ItemEligible(ib, call.user_id, call.exclude) :
         ItemScoreOf(ib, call.user_id, m).value < result.value[1].score

-----------------------------------------------------------------------------
(* The popularity fallback of the collaborative models *)

\* the fitted collaborative model that the recommend call in progress addresses
Collaborative == IF call.op = "item.recommend" THEN ib ELSE ub

PopularityRanked(rows, self, exclude, n) ==
    /\ Len(rows) <= n
    /\ \A i \in DOMAIN rows :
         /\ rows[i].movieId \in DOMAIN self.movie_to_idx
         /\ rows[i].movieId \notin exclude
         /\ rows[i].score = AvgRating(rows[i].movieId)
    /\ \A i, j \in DOMAIN rows : i < j => rows[i].score >= rows[j].score

\* C14: for a user who is not in the fitted index, recommend on the item-based
\* and the user-based model returns at most n movies in descending order of
\* popularity, each present in the model's item index and none in exclude.
C14_PopularityFallback ==
    (call.op \in {"item.recommend", "user.recommend"} /\ TargetFitted
       /\ call.user_id \notin DOMAIN Collaborative.user_to_idx) =>
        /\ result.kind = "list"
        /\ PopularityRanked(result.value, Collaborative, call.exclude, call.n)

-----------------------------------------------------------------------------
(* Fallbacks of the user-based prediction *)

\* the positions of the users who rated the movie and are positively similar
\* to the user, in the fitted user model
PositiveRaters(self, user_id, movie_id) ==
    {i \in 0..(Len(self.user_ids) - 1) :
        /\ self.user_item_matrix[i][self.movie_to_idx[movie_id]] > 0
        /\ self.user_similarity[self.user_to_idx[user_id]][i] > 0}

UserCannotPredict(self, user_id, movie_id) ==
    \/ user_id \notin DOMAIN self.user_to_idx
    \/ movie_id \notin DOMAIN self.movie_to_idx
    \/ PositiveRaters(self, user_id, movie_id) = {}

\* C15: the fitted user-based model's predict_rating returns "no prediction"
\* when the user is unknown, when the movie is unknown and when no positively
\* similar user has rated the movie.
C15_UserNoPredictionCases ==
    (call.op = "user.predict_rating" /\ ub.is_fitted
       /\ UserCannotPredict(ub, call.user_id, call.movie_id)) =>
        result.kind = "none"

-----------------------------------------------------------------------------
(* Exclusions of the content recommendations *)

\* C16: for a fitted content model and a non-empty rated list,
\* recommend_for_user returns no movie of the rated list and no movie of the
\* caller's exclude set.
C16_ContentSkipsRatedAndExcluded ==
    (call.op = "content.recommend_for_user" /\ cb.is_fitted /\ call.rated # <<>>) =>
        /\ result.kind = "list"
        /\ \A i \in DOMAIN result.value :
             /\ result.value[i].movieId \notin RatedIds(call.rated)
             /\ result.value[i].movieId \notin call.exclude

\* rated and excluded movies were passed over and another movie came back
C16_OtherMovieReturned ==
    /\ call.op = "content.recommend_for_user" /\ cb.is_fitted
    /\ call.rated # <<>> /\ call.exclude # {}
    /\ RatedIds(call.rated) \cap call.exclude = {}
    /\ result.kind = "list" /\ Len(result.value) >= 1

-----------------------------------------------------------------------------
(* Queries with identifiers the fitted index does not have *)

\* the movie of the call in progress is absent from the index of the model
\* it addresses (for the hybrid model: from the index of every sub-model)
MovieAbsent ==
    /\ "movie_id" \in DOMAIN call
    /\ CASE call.op \in ContentOps -> call.movie_id \notin DOMAIN cb.movie_id_to_idx
         [] call.op \in ItemOps -> call.movie_id \notin DOMAIN ib.movie_to_idx
         [] call.op \in UserOps -> call.movie_id \notin DOMAIN ub.movie_to_idx
         [] OTHER -> /\ call.movie_id \notin DOMAIN hy.content_model.movie_id_to_idx
                     /\ call.movie_id \notin DOMAIN hy.item_model.movie_to_idx
                     /\ call.movie_id \notin DOMAIN hy.user_model.movie_to_idx

\* the user of the call in progress is absent from the index of the
\* collaborative model it addresses
UserAbsent ==
    /\ "user_id" \in DOMAIN call
    /\ CASE call.op \in ItemOps -> call.user_id \notin DOMAIN ib.user_to_idx
         [] call.op \in UserOps -> call.user_id \notin DOMAIN ub.user_to_idx
         [] OTHER -> FALSE

\* the rated list of the call in progress has an entry for a movie the
\* content model does not have
RatedEntryAbsent ==
    /\ "rated" \in DOMAIN call
    /\ \E m \in RatedIds(call.rated) :
         m \notin DOMAIN (IF call.op \in ContentOps THEN cb
                          ELSE hy.content_model).movie_id_to_idx

-----------------------------------------------------------------------------
(* Queries of several threads on one shared fitted model *)

Threads == {1, 2}

\* the number of entries explain_recommendation reports
ExplainTop == 5

RetDict(d) == [kind |-> "dict", value |-> d]

UserGetSimilarUsers(self, user_id, n) ==
    IF ~self.is_fitted \/ user_id \notin DOMAIN self.user_to_idx THEN RetList(<<>>)
    ELSE LET user_idx == self.user_to_idx[user_id]
             size == Len(self.user_ids)
         IN IF user_idx >= size THEN Raise("IndexError")
            ELSE LET similarities == self.user_similarity[user_idx]
                     similar_indices == Take(ArgsortReversed(similarities, size), n)
                 IN RetList([p \in DOMAIN similar_indices |->
                       [userId |-> self.idx_to_user[similar_indices[p]],
                        similarity |-> similarities[similar_indices[p]]]])

\* the rated movies whose content similarity to the movie exceeds 0.1, most
\* similar first
ExplainSimilarRated(content_model, movie_id, rated) ==
    LET hit == {i \in DOMAIN rated :
                  /\ rated[i].movieId \in DOMAIN content_model.movie_id_to_idx
                  /\ movie_id \in DOMAIN content_model.movie_id_to_idx
                  /\ 10 * content_model.similarity_matrix
                            [content_model.movie_id_to_idx[movie_id]]
                            [content_model.movie_id_to_idx[rated[i].movieId]] > One}
        picked == SelectIdx(rated, hit, 1)
    IN SortDescStable([i \in DOMAIN picked |->
          [key |-> content_model.similarity_matrix
                       [content_model.movie_id_to_idx[movie_id]]
                       [content_model.movie_id_to_idx[picked[i].movieId]],
           movieId |-> picked[i].movieId, rating |-> picked[i].rating]])

ExplainMethod(method, weight, count, similar) ==
    <<[method |-> method, weight |-> weight, count |-> count, similar |-> similar]>>

ExplainContent(self, movie_id, similar_rated) ==
    ExplainMethod("content_based", self.weights.content, Len(similar_rated),
                  Take(similar_rated, ExplainTop))

ExplainUser(self, similar_users) ==
    ExplainMethod("user_based", self.weights.user, Len(similar_users.value), <<>>)

\* explain_recommendation: one entry per method that has something to say,
\* and the predicted rating
HybridExplain(self, user_id, movie_id, rated_given, rated) ==
    IF ~self.is_fitted THEN RetDict(EmptyDict)
    ELSE LET user_rated_movies == IF rated_given THEN rated
                                  ELSE GetUserRatings(self, user_id)
         IN RetDict(
              [movieId |-> movie_id,
               methods |->
                 (IF ~IsNone(self.content_model) /\ user_rated_movies # <<>>
                  THEN ExplainContent(self, movie_id,
                           ExplainSimilarRated(self.content_model, movie_id,
                                               user_rated_movies))
                  ELSE <<>>)
                 \o (IF ~IsNone(self.item_model)
                        /\ movie_id \in DOMAIN self.item_model.movie_to_idx
                     THEN ExplainMethod("item_based", self.weights.item, 0, <<>>)
                     ELSE <<>>)
                 \o (IF ~IsNone(self.user_model)
                        /\ user_id \in DOMAIN self.user_model.user_to_idx
                     THEN ExplainUser(self, UserGetSimilarUsers(self.user_model, user_id,
                                                                ExplainTop))
                     ELSE <<>>),
               predicted_rating |->
                 HybridPredictRating(self, user_id, movie_id, user_rated_movies)])

\* the four model objects the threads share
Shared(c, i, u, h) == [cb |-> c, ib |-> i, ub |-> u, hy |-> h]

FittedHybrid(movies, ratings, c, i, u) ==
    Shared(c, i, u, HybridFit(HybridNew(6, 7, 7), movies, ratings, c, i, u))

\* the objects as the training script leaves them
FittedModels(movies, ratings) ==
    FittedHybrid(movies, ratings, ContentFit(ContentNew, movies),
                 ItemFit(ItemNew(K, MinRatings), ratings, movies),
                 UserFit(UserNew(K, MinCommon), ratings, movies))

\* the value a query returns, computed from the objects it reads
Answer(models, c) ==
    CASE c.op = "content.get_similar_movies" ->
           ContentGetSimilar(models.cb, c.movie_id, c.n, c.exclude)
      [] c.op = "content.recommend_for_user" ->
           ContentRecommend(models.cb, c.rated, c.n, c.exclude, c.garbage)
      [] c.op = "content.predict_rating" ->
           ContentPredictRating(models.cb, c.movie_id, c.rated)
      [] c.op = "item.get_similar_items" ->
           ItemGetSimilarItems(models.ib, c.movie_id, c.n)
      [] c.op = "item.predict_rating" ->
           ItemPredictRating(models.ib, c.user_id, c.movie_id)
      [] c.op = "item.recommend" ->
           ItemRecommend(models.ib, c.user_id, c.n, c.exclude)
      [] c.op = "user.predict_rating" ->
           UserPredictRating(models.ub, c.user_id, c.movie_id)
      [] c.op = "user.recommend" ->
           UserRecommend(models.ub, c.user_id, c.n, c.exclude)
      [] c.op = "hybrid.predict_rating" ->
           HybridPredictRating(models.hy, c.user_id, c.movie_id, c.rated)
      [] c.op = "hybrid.recommend" ->
           HybridRecommend(models.hy, c.user_id, c.n, c.exclude, c.rated_given,
                           c.rated, c.garbage)
      [] c.op = "hybrid.get_similar_movies" ->
           HybridGetSimilarMovies(models.hy, c.movie_id, c.n)
      [] OTHER ->
           HybridExplain(models.hy, c.user_id, c.movie_id, c.rated_given, c.rated)

\* A faulty query, which re-weights the shared hybrid model as it answers.
AfterQueryReweighted(models, c) ==
    [models EXCEPT !.hy.weights = Normalized(1, 0, 0)]

\* the shared objects as a query leaves them: no query method assigns a field
\* of a model or writes into one of its arrays or dicts
AfterQuery(models, c) == models

ConcUsers == {1, 3}
ConcMovies == {3, 4}
ConcRated == {<<>>, <<Rated(1, 10)>>}
ConcExcludes == {{}, {2, 3}}

\* the queries a thread may make
ConcCalls ==
    {[op |-> "content.get_similar_movies", movie_id |-> m, n |-> MaxN, exclude |-> {}] :
        m \in ConcMovies}
    \cup UNION {{[op |-> "content.recommend_for_user", rated |-> r, n |-> MaxN,
                  exclude |-> ex, garbage |-> g] : g \in GarbageFor(cb, r)} :
                r \in ConcRated, ex \in ConcExcludes}
    \cup {[op |-> "content.predict_rating", movie_id |-> m, rated |-> r] :
            m \in ConcMovies, r \in ConcRated}
    \cup {[op |-> "item.get_similar_items", movie_id |-> m, n |-> MaxN] : m \in ConcMovies}
    \cup {[op |-> "item.predict_rating", user_id |-> u, movie_id |-> m] :
            u \in ConcUsers, m \in ConcMovies}
    \cup {[op |-> "item.recommend", user_id |-> u, n |-> MaxN, exclude |-> ex] :
            u \in ConcUsers, ex \in ConcExcludes}
    \cup {[op |-> "user.predict_rating", user_id |-> u, movie_id |-> m] :
            u \in ConcUsers, m \in ConcMovies}
    \cup {[op |-> "user.recommend", user_id |-> u, n |-> MaxN, exclude |-> ex] :
            u \in ConcUsers, ex \in ConcExcludes}
    \cup {[op |-> "hybrid.predict_rating", user_id |-> u, movie_id |-> m, rated |-> r] :
            u \in ConcUsers, m \in ConcMovies, r \in ConcRated}
    \cup UNION {{[op |-> "hybrid.recommend", user_id |-> u, n |-> MaxN, exclude |-> {},
                  rated_given |-> TRUE, rated |-> r, garbage |-> g] :
                    g \in GarbageFor(cb, r)} : u \in ConcUsers, r \in ConcRated}
    \cup {[op |-> "hybrid.get_similar_movies", movie_id |-> m, n |-> MaxN] :
            m \in ConcMovies}
    \cup {[op |-> "hybrid.explain_recommendation", user_id |-> u, movie_id |-> m,
           rated_given |-> g, rated |-> <<>>] :
            u \in ConcUsers, m \in ConcMovies, g \in {FALSE}}
    \cup {[op |-> "hybrid.explain_recommendation", user_id |-> u, movie_id |-> m,
           rated_given |-> TRUE, rated |-> <<Rated(1, 10)>>] :
            u \in ConcUsers, m \in ConcMovies}

\* the snapshot the shared models are trained on: the catalog of four movies
\* and its ratings
WideCatalog == CHOOSE df \in Catalogs : Len(df) = 4
WideLog == CHOOSE log \in RatingLogs(WideCatalog) : TRUE
TrainedModels == FittedModels(WideCatalog, WideLog)

\* training has finished; every thread is idle
ConcurrentInit ==
    /\ movies_df = WideCatalog
    /\ ratings_df = WideLog
    /\ cb = TrainedModels.cb
    /\ ib = TrainedModels.ib
    /\ ub = TrainedModels.ub
    /\ hy = TrainedModels.hy
    /\ n_fits = [content |-> 1, item |-> 1, user |-> 1]
    /\ pc = [t \in Threads |-> "idle"]
    /\ call = [t \in Threads |-> Idle]
    /\ result = [t \in Threads |-> RetNone]
    /\ exclude_arg = [t \in Threads |-> {}]
    /\ model_files = NoFiles
    /\ model_cache = EmptyDict

\* a thread enters a query method with its arguments
Enter(t) ==
    /\ pc[t] = "idle"
    /\ \E c \in ConcCalls : call' = [call EXCEPT ![t] = c]
    /\ pc' = [pc EXCEPT ![t] = "running"]
    /\ UNCHANGED <<movies_df, ratings_df, cb, ib, ub, hy, n_fits, result, exclude_arg, model_files, model_cache>>

\* the method reads the shared objects and returns
Leave(t) ==
    /\ pc[t] = "running"
    /\ result' = [result EXCEPT ![t] = Answer(Shared(cb, ib, ub, hy), call[t])]
    /\ cb' = AfterQuery(Shared(cb, ib, ub, hy), call[t]).cb
    /\ ib' = AfterQuery(Shared(cb, ib, ub, hy), call[t]).ib
    /\ ub' = AfterQuery(Shared(cb, ib, ub, hy), call[t]).ub
    /\ hy' = AfterQuery(Shared(cb, ib, ub, hy), call[t]).hy
    /\ pc' = [pc EXCEPT ![t] = "returned"]
    /\ UNCHANGED <<movies_df, ratings_df, n_fits, call, exclude_arg, model_files, model_cache>>

\* the caller takes the result
Collect(t) ==
    /\ pc[t] = "returned"
    /\ pc' = [pc EXCEPT ![t] = "idle"]
    /\ call' = [call EXCEPT ![t] = Idle]
    /\ result' = [result EXCEPT ![t] = RetNone]
    /\ UNCHANGED <<movies_df, ratings_df, cb, ib, ub, hy, n_fits, exclude_arg, model_files, model_cache>>

ConcurrentNext == \E t \in Threads : Enter(t) \/ Leave(t) \/ Collect(t)

ConcurrentSpec == ConcurrentInit /\ [][ConcurrentNext]_vars

\* the shared objects are the given ones, and every returned result is the
\* answer the given objects give
ReadOnlyAgainst(fitted) ==
    /\ Shared(cb, ib, ub, hy) = fitted
    /\ \A t \in Threads :
         pc[t] = "returned" => result[t] = Answer(fitted, call[t])

-----------------------------------------------------------------------------
(* The item similarity of two movies rated by two users *)

\* the ratings (half-stars, 0 = no rating) users 1 and 2 may give movies 10
\* and 11
PairRatings == {0, 2, 6, 10}

\* the rating log: user 1 and user 2 on movie 10, then on movie 11
PairLog(a, b, c, d) ==
    SelectSeq(<<[userId |-> 1, movieId |-> 10, rating |-> a],
                [userId |-> 2, movieId |-> 10, rating |-> b],
                [userId |-> 1, movieId |-> 11, rating |-> c],
                [userId |-> 2, movieId |-> 11, rating |-> d]>>,
              LAMBDA row : row.rating # 0)

\* the logs with at least one rating
PairLogs == {PairLog(a, b, c, d) : a \in PairRatings, b \in PairRatings,
                                   c \in PairRatings, d \in PairRatings} \ {<<>>}

\* an item-based model with min_ratings = 1, not fitted yet, and a rating log
PairInit ==
    /\ movies_df = <<>>
    /\ ratings_df \in PairLogs
    /\ cb = ContentNew
    /\ ib = ItemNew(K, 1)
    /\ ub = UserNew(K, MinCommon)
    /\ hy = HybridNew(6, 7, 7)
    /\ pc = "item"
    /\ n_fits = [content |-> 0, item |-> 0, user |-> 0]
    /\ call = Idle
    /\ result = RetNone
    /\ exclude_arg = {}
    /\ model_files = NoFiles
    /\ model_cache = EmptyDict

\* the model is fitted on the log
PairSpec == PairInit /\ [][FitItem]_vars

\* the raters of the item at position j all gave it the same rating
UniformlyRated(self, j) ==
    \A u, v \in 0..(Len(self.user_ids) - 1) :
        (self.user_item_matrix[u][j] > 0 /\ self.user_item_matrix[v][j] > 0) =>
            self.user_item_matrix[u][j] = self.user_item_matrix[v][j]

-----------------------------------------------------------------------------
(* The min_ratings threshold of the item-based model *)

\* the number of ratings of a movie in a snapshot
RatingsOf(ratings, m) == Cardinality({r \in DOMAIN ratings : ratings[r].movieId = m})

\* the movies of the snapshot with at least min_ratings ratings
WellRated(self) ==
    {m \in {self.ratings_df[r].movieId : r \in DOMAIN self.ratings_df} :
        RatingsOf(self.ratings_df, m) >= self.min_ratings}

\* C20: after ItemBasedModel.fit the item index and the similarity matrix
\* hold exactly the movies with at least min_ratings ratings; a movie with
\* fewer is never returned by get_similar_items or recommend, and
\* predict_rating for it returns "no prediction".
C20_MinRatingsFilter ==
    ib.is_fitted =>
        /\ DOMAIN ib.movie_to_idx = WellRated(ib)
        /\ Range(ib.movie_ids) = WellRated(ib)
        /\ DOMAIN ib.item_similarity = 0..(Cardinality(WellRated(ib)) - 1)
        /\ (call.op \in {"item.get_similar_items", "item.recommend"}) =>
               /\ result.kind = "list"
               /\ Range(IdsOf(result.value)) \subseteq WellRated(ib)
        /\ (call.op = "item.predict_rating" /\ call.movie_id \notin WellRated(ib)) =>
               result.kind = "none"

\* a movie with a single rating, which the user has not rated, was left out
\* of the user's recommendations
C20_ThinMovieLeftOut ==
    /\ ib.is_fitted /\ call.op = "item.recommend"
    /\ result.kind = "list" /\ Len(result.value) > 0
    /\ \E m \in Movies :
         /\ RatingsOf(ib.ratings_df, m) = 1
         /\ m \notin Range(IdsOf(result.value))
         /\ \A r \in DOMAIN ib.ratings_df :
              ib.ratings_df[r].movieId = m => ib.ratings_df[r].userId # call.user_id

-----------------------------------------------------------------------------
(* The rating matrix of a log that rates a pair more than once *)

\* the tuples a log may hold: users 1 and 2 on movies 1 and 2
LogUsers == {1, 2}
LogMovies == {1, 2}
LogRatings == {2, 6, 10}
LogTuples == [userId : LogUsers, movieId : LogMovies, rating : LogRatings]

\* the longest log
MaxLog == 3

\* the rating logs, oldest tuple first; a pair may occur more than once
RepeatLogs == UNION { [1..len -> LogTuples] : len \in 1..MaxLog }

\* the catalogs, in which a movieId may occur more than once
RepeatCatalogs ==
    { [i \in DOMAIN ids |-> MovieRow(ids[i])] : ids \in {<<1, 2>>, <<1, 1>>, <<1, 2, 1>>} }

\* models not fitted yet (min_ratings = 1), a catalog and a rating log
LogInit ==
    /\ movies_df \in RepeatCatalogs
    /\ ratings_df \in RepeatLogs
    /\ cb = ContentNew
    /\ ib = ItemNew(K, 1)
    /\ ub = UserNew(K, MinCommon)
    /\ hy = HybridNew(6, 7, 7)
    /\ pc = "content"
    /\ n_fits = [content |-> 0, item |-> 0, user |-> 0]
    /\ call = Idle
    /\ result = RetNone
    /\ exclude_arg = {}
    /\ model_files = NoFiles
    /\ model_cache = EmptyDict

LogNext == FitContent \/ FitItem \/ FitUser

\* the three models are fitted once, on the catalog and the log
LogSpec == LogInit /\ [][LogNext]_vars

\* the rating of the most recent tuple of the log for a pair, 0 without one
LatestRating(log, u, m) ==
    LET rows == {r \in DOMAIN log : log[r].userId = u /\ log[r].movieId = m}
    IN IF rows = {} THEN 0
       ELSE log[CHOOSE r \in rows : \A q \in rows : q <= r].rating

\* the entries of a fitted model's matrix are the latest ratings of the log
MatrixIsLatest(self) ==
    \A u \in DOMAIN self.user_to_idx, m \in DOMAIN self.movie_to_idx :
        self.user_item_matrix[self.user_to_idx[u]][self.movie_to_idx[m]]
            = LatestRating(ratings_df, u, m)

\* C21: in the rating matrix built by fit of the item-based and user-based
\* models, the entry for (user, movie) is 0 exactly when the user has no
\* rating for the movie and otherwise the rating of the most recent tuple of
\* the log for that pair, also when the log holds several tuples for a pair.
C21_MatrixHoldsLatestRating ==
    /\ ib.is_fitted => MatrixIsLatest(ib)
    /\ ub.is_fitted => MatrixIsLatest(ub)

-----------------------------------------------------------------------------
(* The identifier index as a bijection *)

\* the forward and the reverse map are mutually inverse over the positions
\* 0..n-1
Bijection(to_idx, from_idx, n) ==
    /\ DOMAIN from_idx = 0..(n - 1)
    /\ {to_idx[id] : id \in DOMAIN to_idx} = 0..(n - 1)
    /\ \A id \in DOMAIN to_idx :
          to_idx[id] \in DOMAIN from_idx /\ from_idx[to_idx[id]] = id
    /\ \A i \in DOMAIN from_idx :
          from_idx[i] \in DOMAIN to_idx /\ to_idx[from_idx[i]] = i

\* the number of rows of a square matrix held as a function on 0..n-1
Rows(matrix) == Cardinality(DOMAIN matrix)

\* C22: after fit of the content, item or user model the identifier index is a
\* bijection: the forward and the reverse map are mutually inverse, the
\* positions are exactly 0..N-1, and every position is a row of the similarity
\* matrix, also when an ID occurs more than once in the input.
C22_IndexIsBijection ==
    /\ cb.is_fitted =>
          Bijection(cb.movie_id_to_idx, cb.idx_to_movie_id, Rows(cb.similarity_matrix))
    /\ ib.is_fitted =>
          Bijection(ib.movie_to_idx, ib.idx_to_movie, Rows(ib.item_similarity))
    /\ ub.is_fitted =>
          Bijection(ub.user_to_idx, ub.idx_to_user, Rows(ub.user_similarity))

\* the part of C22 about the collaborative models
C22_CollaborativeIndexIsBijection ==
    /\ ib.is_fitted =>
          /\ Bijection(ib.movie_to_idx, ib.idx_to_movie, Rows(ib.item_similarity))
          /\ Bijection(ib.user_to_idx, ib.idx_to_user, Len(ib.user_ids))
    /\ ub.is_fitted =>
          /\ Bijection(ub.user_to_idx, ub.idx_to_user, Rows(ub.user_similarity))
          /\ Bijection(ub.movie_to_idx, ub.idx_to_movie, Len(ub.movie_ids))

-----------------------------------------------------------------------------
(* Candidates of the content model without any similarity to the rated list *)

\* C23: in ContentBasedModel.recommend_for_user a candidate whose accumulated
\* absolute-similarity weight is zero gets score exactly 0, whatever the
\* run: no fault and no undefined value appears in the ranking.
C23_ZeroWeightScoresZero ==
    (call.op = "content.recommend_for_user" /\ cb.is_fitted /\ call.rated # <<>>) =>
        /\ result.kind = "list"
        /\ \A i \in DOMAIN result.value :
             ContentWeights(cb, call.rated)[cb.movie_id_to_idx[result.value[i].movieId]] = 0
                 => result.value[i].score = 0

-----------------------------------------------------------------------------
(* ModelEvaluator.evaluate_model over a model given by what its methods do *)

\* rating_threshold = 3.5, in half-stars
RatingThresholdHalf == 7

\* the largest k of k_values
MaxK == 2

\* 1 / log2(i + 2) in ticks, for the positions of a short list
InvLog2(i) == CASE i = 0 -> One
                [] i = 1 -> (One * 631) \div 1000
                [] i = 2 -> One \div 2
                [] i = 3 -> (One * 431) \div 1000
                [] OTHER -> (One * 387) \div 1000

\* 2**rel - 1 for a rating of whole stars held in half-stars
Gain(rel) == Pow2(rel \div 2) - 1

\* the sum of the entries of a sequence of numbers
SumSeq(s) == SumOver(s, DOMAIN s)

\* float(np.mean(list)), in ticks
MeanOf(s) == Fl(SumSeq(s), Len(s))

\* the distinct values of a column in order of first appearance (pd.unique)
RECURSIVE Unique(_)
Unique(s) ==
    IF s = <<>> THEN <<>>
    ELSE LET front == Unique(SubSeq(s, 1, Len(s) - 1))
             last == s[Len(s)]
         IN IF last \in Range(front) THEN front ELSE Append(front, last)

\* df[df['userId'] == user_id]
RowsOfUser(df, user_id) == SelectSeq(df, LAMBDA row : row.userId = user_id)

PrecisionAtK(recommendations, relevant, k) ==
    IF k <= 0 THEN 0
    ELSE Fl(Cardinality(Range(Take(recommendations, k)) \cap relevant) * One, k)

RecallAtK(recommendations, relevant, k) ==
    IF Cardinality(relevant) = 0 THEN 0
    ELSE Fl(Cardinality(Range(Take(recommendations, Max2(k, 0))) \cap relevant) * One,
            Cardinality(relevant))

F1AtK(precision, recall) ==
    IF precision + recall = 0 THEN 0
    ELSE Fl(2 * precision * recall, precision + recall)

\* relevance_scores is a dict movieId -> rating (half-stars)
NdcgAtK(recommendations, relevance_scores, k) ==
    LET top_k == Take(recommendations, Max2(k, 0))
        rel(i) == IF top_k[i] \in DOMAIN relevance_scores
                  THEN relevance_scores[top_k[i]] ELSE 0
        dcg == SumSeq([i \in DOMAIN top_k |-> Gain(rel(i)) * InvLog2(i - 1)])
        values == [m \in DOMAIN relevance_scores |-> [key |-> relevance_scores[m]]]
        ids == SortedSeq(DOMAIN relevance_scores)
        ideal_rels == Take(SortDescStable([i \in DOMAIN ids |-> values[ids[i]]]), Max2(k, 0))
        idcg == SumSeq([i \in DOMAIN ideal_rels |-> Gain(ideal_rels[i].key) * InvLog2(i - 1)])
    IN IF idcg = 0 THEN 0 ELSE Fl(dcg * One, idcg)

HitRateAtK(recommendations, relevant, k) ==
    IF Range(Take(recommendations, Max2(k, 0))) \cap relevant # {} THEN One ELSE 0

\* rmse and mae of the (true, predicted) pairs, both in ticks
Rmse(y) ==
    LET sq == SumSeq([i \in DOMAIN y |-> (y[i][1] - y[i][2]) * (y[i][1] - y[i][2])])
    IN ISqrt(sq \div Len(y))

Mae(y) == Fl(SumSeq([i \in DOMAIN y |-> Abs(y[i][1] - y[i][2])]), Len(y))

RankingMetrics == {"precision", "recall", "ndcg", "hit_rate"}

\* the keys f'{metric}@{k}' of the metrics dictionary
ListKeys(k_values) == RankingMetrics \X Range(k_values)

\* the inner try block of the row loop: the pair is appended when
\* predict_rating returns a value, and passed over when it returns None or
\* raises
RECURSIVE PredictRows(_, _, _, _)
PredictRows(model, user_test, i, y) ==
    IF i > Len(user_test) THEN y
    ELSE LET row == user_test[i]
             pred == model.predict_rating[<<row.userId, row.movieId>>]
         IN PredictRows(model, user_test, i + 1,
                        IF pred.kind = "float"
                        THEN Append(y, <<row.rating * HalfStar, pred.value>>)
                        ELSE y)

\* for k in k_values: the four appends
RECURSIVE AppendMetrics(_, _, _, _, _, _)
AppendMetrics(lists, k_values, i, rec_ids, relevant, relevance_scores) ==
    IF i > Len(k_values) THEN lists
    ELSE LET k == k_values[i]
             p == [lists EXCEPT ![<<"precision", k>>] =
                      Append(@, PrecisionAtK(rec_ids, relevant, k))]
             r == [p EXCEPT ![<<"recall", k>>] =
                      Append(@, RecallAtK(rec_ids, relevant, k))]
             g == [r EXCEPT ![<<"ndcg", k>>] =
                      Append(@, NdcgAtK(rec_ids, relevance_scores, k))]
             h == [g EXCEPT ![<<"hit_rate", k>>] =
                      Append(@, HitRateAtK(rec_ids, relevant, k))]
         IN AppendMetrics(h, k_values, i + 1, rec_ids, relevant, relevance_scores)

\* dict(zip(user_test['movieId'], user_test['rating'])): the last row of a
\* movie gives its rating
RelevanceScores(user_test) ==
    [m \in {user_test[i].movieId : i \in DOMAIN user_test} |->
        user_test[CHOOSE i \in DOMAIN user_test :
                     /\ user_test[i].movieId = m
                     /\ \A j \in DOMAIN user_test : user_test[j].movieId = m => j <= i].rating]

\* A faulty handler, which counts a user whose recommend call raised as a
\* user with all metrics 0.
RankUserZeroOnRaise(lists, model, user_id, user_test, exclude, k_values) ==
    LET recommendations == model.recommend[user_id]
        relevant == {user_test[i].movieId :
                        i \in {j \in DOMAIN user_test :
                                  user_test[j].rating >= RatingThresholdHalf}}
    IN AppendMetrics(lists, k_values, 1,
                     IF recommendations.kind = "raise" THEN <<>>
                     ELSE recommendations.value,
                     IF recommendations.kind = "raise" THEN {} ELSE relevant,
                     IF recommendations.kind = "raise" THEN EmptyDict
                     ELSE RelevanceScores(user_test))

\* the outer try block of a user: recommend(user_id, n=max(k_values),
\* exclude) and the appends, nothing at all when recommend raises
RankUser(lists, model, user_id, user_test, exclude, k_values) ==
    LET recommendations == model.recommend[user_id]
        relevant == {user_test[i].movieId :
                        i \in {j \in DOMAIN user_test :
                                  user_test[j].rating >= RatingThresholdHalf}}
    IN IF recommendations.kind = "raise" THEN lists
       ELSE AppendMetrics(lists, k_values, 1, recommendations.value, relevant,
                          RelevanceScores(user_test))

\* for user_id in test_users
RECURSIVE EvalUsers(_, _, _, _, _, _, _)
EvalUsers(model, test_ratings, train_ratings, k_values, test_users, u, acc) ==
    IF u > Len(test_users) THEN acc
    ELSE LET user_id == test_users[u]
             user_test == RowsOfUser(test_ratings, user_id)
             user_train == RowsOfUser(train_ratings, user_id)
             exclude == {user_train[i].movieId : i \in DOMAIN user_train}
         IN EvalUsers(model, test_ratings, train_ratings, k_values, test_users, u + 1,
                      [y |-> PredictRows(model, user_test, 1, acc.y),
                       lists |-> RankUser(acc.lists, model, user_id, user_test,
                                          exclude, k_values)])

\* A faulty aggregation, which reports the mean of the users' F1 scores.
ReportMeanF1(means, lists, k_values) ==
    [key \in ({"f1"} \X Range(k_values)) |->
        LET p == lists[<<"precision", key[2]>>]
            r == lists[<<"recall", key[2]>>]
        IN IF p = <<>> THEN 0
           ELSE MeanOf([i \in DOMAIN p |-> F1AtK(p[i], r[i])])]

\* the F1 scores added to the aggregated metrics
ReportF1(means, lists, k_values) ==
    [key \in ({"f1"} \X Range(k_values)) |->
        F1AtK(means[<<"precision", key[2]>>], means[<<"recall", key[2]>>])]

EvaluateModel(model, test_ratings, train_ratings, k_values) ==
    LET test_users == Unique([i \in DOMAIN test_ratings |-> test_ratings[i].userId])
        acc == EvalUsers(model, test_ratings, train_ratings, k_values, test_users, 1,
                         [y |-> <<>>, lists |-> [key \in ListKeys(k_values) |-> <<>>]])
        errors == [key \in {<<"rmse", 0>>, <<"mae", 0>>} |->
                      IF acc.y = <<>> THEN 0
                      ELSE IF key[1] = "rmse" THEN Rmse(acc.y) ELSE Mae(acc.y)]
        means == [key \in ListKeys(k_values) |->
                     IF acc.lists[key] # <<>> THEN MeanOf(acc.lists[key]) ELSE 0]
    IN RetDict(errors @@ means @@ ReportF1(means, acc.lists, k_values))

\* the held-out ratings (whole stars, in half-stars) and the training ratings
TestRow(u, m, r) == [userId |-> u, movieId |-> m, rating |-> r]
TestSets ==
    { <<TestRow(1, 1, 10), TestRow(1, 2, 4), TestRow(2, 1, 8), TestRow(2, 2, 10)>>,
      <<TestRow(2, 1, 10), TestRow(1, 3, 6), TestRow(3, 2, 8)>> }
TrainSets == { <<TestRow(1, 3, 10), TestRow(2, 3, 2)>> }

KValues == { <<k>> : k \in 1..MaxK } \cup { <<1, MaxK>> }

\* what the model's predict_rating and recommend may do for a pair and a user
PredictOutcomes == {Raise("Exception"), RetNone, RetFloat(2 * One)}
RecommendOutcomes ==
    {Raise("Exception")} \cup
    {RetList(l) : l \in {<<>>, <<1, 2>>, <<1, 3>>, <<3, 2, 1>>}}

PairsOf(test_ratings) ==
    {<<test_ratings[i].userId, test_ratings[i].movieId>> : i \in DOMAIN test_ratings}

UsersOf(test_ratings) == {test_ratings[i].userId : i \in DOMAIN test_ratings}

\* nothing is fitted; the evaluator is idle
EvalInit ==
    /\ movies_df = <<>>
    /\ ratings_df = <<>>
    /\ cb = ContentNew
    /\ ib = ItemNew(K, MinRatings)
    /\ ub = UserNew(K, MinCommon)
    /\ hy = HybridNew(6, 7, 7)
    /\ pc = "evaluate"
    /\ n_fits = [content |-> 0, item |-> 0, user |-> 0]
    /\ call = Idle
    /\ result = RetNone
    /\ exclude_arg = {}
    /\ model_files = NoFiles
    /\ model_cache = EmptyDict

Evaluate ==
    /\ call = Idle
    /\ \E test \in TestSets, train \in TrainSets, k_values \in KValues :
         \E predict_rating \in [PairsOf(test) -> PredictOutcomes],
            recommend \in [UsersOf(test) -> RecommendOutcomes] :
           LET model == [predict_rating |-> predict_rating, recommend |-> recommend]
           IN /\ call' = [op |-> "evaluate_model", model |-> model,
                          test_ratings |-> test, train_ratings |-> train,
                          k_values |-> k_values]
              /\ result' = EvaluateModel(model, test, train, k_values)
    /\ exclude_arg' = {}
    /\ UNCHANGED objects

EvalNext == Evaluate \/ Return

EvalSpec == EvalInit /\ [][EvalNext]_vars

-----------------------------------------------------------------------------
(* Exceptions of the evaluated model, and what the reported metrics are *)

\* the rows of the test set for which predict_rating returned a value
EvaluatedRows(c) ==
    {i \in DOMAIN c.test_ratings :
        c.model.predict_rating[<<c.test_ratings[i].userId,
                                 c.test_ratings[i].movieId>>].kind = "float"}

\* the rows for which it raised
RaisedRows(c) ==
    {i \in DOMAIN c.test_ratings :
        c.model.predict_rating[<<c.test_ratings[i].userId,
                                 c.test_ratings[i].movieId>>].kind = "raise"}

\* the test users for whom recommend returned a list, and those for whom it
\* raised
RankedUsers(c) == {u \in UsersOf(c.test_ratings) : c.model.recommend[u].kind = "list"}
RaisedUsers(c) == {u \in UsersOf(c.test_ratings) : c.model.recommend[u].kind = "raise"}

\* the absolute error of row i
RowError(c, i) ==
    Abs(c.test_ratings[i].rating * HalfStar
        - c.model.predict_rating[<<c.test_ratings[i].userId,
                                   c.test_ratings[i].movieId>>].value)

\* a ranking metric of one user, from the user's top k recommendations
UserMetric(name, c, u, k) ==
    LET user_test == RowsOfUser(c.test_ratings, u)
        recs == c.model.recommend[u].value
        relevant == {user_test[i].movieId :
                        i \in {j \in DOMAIN user_test :
                                  user_test[j].rating >= RatingThresholdHalf}}
        p == PrecisionAtK(recs, relevant, k)
        r == RecallAtK(recs, relevant, k)
    IN CASE name = "precision" -> p
         [] name = "recall" -> r
         [] name = "f1" -> F1AtK(p, r)
         [] name = "ndcg" -> NdcgAtK(recs, RelevanceScores(user_test), k)
         [] name = "hit_rate" -> HitRateAtK(recs, relevant, k)

\* the mean of a ranking metric over a set of users, 0 over no user
MeanOverUsers(name, c, k, users) ==
    IF users = {} THEN 0
    ELSE Fl(SumOver([u \in users |-> UserMetric(name, c, u, k)], users),
            Cardinality(users))

\* C24: in evaluate_model an exception of predict_rating for one pair or of
\* recommend for one user skips only that pair or that user's ranking
\* metrics: the other pairs and users are evaluated, and evaluate_model
\* returns a dictionary with rmse, mae and precision, recall, ndcg, hit_rate
\* and f1 for every k of k_values instead of raising.
C24_ExceptionsSkipOnlyTheirPair ==
    call.op = "evaluate_model" =>
        /\ result.kind = "dict"
        /\ DOMAIN result.value =
              {<<"rmse", 0>>, <<"mae", 0>>}
              \cup ((RankingMetrics \cup {"f1"}) \X Range(call.k_values))
        /\ result.value[<<"mae", 0>>] =
              IF EvaluatedRows(call) = {} THEN 0
              ELSE Fl(SumOver([i \in EvaluatedRows(call) |-> RowError(call, i)],
                              EvaluatedRows(call)),
                      Cardinality(EvaluatedRows(call)))
        /\ \A name \in RankingMetrics, k \in Range(call.k_values) :
              result.value[<<name, k>>] = MeanOverUsers(name, call, k, RankedUsers(call))

\* a pair and a user raised, and the other pairs and users were evaluated
C24_RaisedAndEvaluated ==
    /\ call.op = "evaluate_model"
    /\ RaisedRows(call) # {} /\ EvaluatedRows(call) # {}
    /\ RaisedUsers(call) # {} /\ RankedUsers(call) # {}
    /\ result.kind = "dict"
    /\ result.value[<<"mae", 0>>] > 0
    /\ \E k \in Range(call.k_values) : result.value[<<"hit_rate", k>>] = One

\* the five ranking metrics
ReportedMetrics == RankingMetrics \cup {"f1"}

\* The statement of C25 as given: each reported ranking metric, F1 included,
\* is the mean over the test users of the user's metric (taken where
\* recommend returned a list for every test user).
C25_EveryMetricIsMeanOverUsers ==
    (call.op = "evaluate_model" /\ RaisedUsers(call) = {}) =>
        \A name \in ReportedMetrics, k \in Range(call.k_values) :
            result.value[<<name, k>>] =
                MeanOverUsers(name, call, k, UsersOf(call.test_ratings))

\* C25: precision@k, recall@k, NDCG@k and hit-rate@k as reported by
\* evaluate_model are each the mean of the user's metric over the test users
\* for whom recommend returned a list (0.0 when there is none); F1@k is the
\* harmonic mean of the reported precision@k and recall@k.
C25_MeansAndF1OfMeans ==
    call.op = "evaluate_model" =>
        \A k \in Range(call.k_values) :
            /\ \A name \in RankingMetrics :
                  result.value[<<name, k>>] =
                      MeanOverUsers(name, call, k, RankedUsers(call))
            /\ result.value[<<"f1", k>>] =
                  F1AtK(MeanOverUsers("precision", call, k, RankedUsers(call)),
                        MeanOverUsers("recall", call, k, RankedUsers(call)))

\* two users were ranked and the reported F1 is not the mean of their F1
\* scores
C25_F1DiffersFromMeanF1 ==
    /\ call.op = "evaluate_model"
    /\ Cardinality(RankedUsers(call)) = 2 /\ RaisedUsers(call) = {}
    /\ \E k \in Range(call.k_values) :
          /\ result.value[<<"f1", k>>] > 0
          /\ result.value[<<"f1", k>>] # MeanOverUsers("f1", call, k, RankedUsers(call))

-----------------------------------------------------------------------------
(* Pruning the user similarity by the number of co-rated items *)

\* the number of movies both users (positions i and j) rated
CoRated(self, i, j) ==
    Cardinality({m \in 0..(Len(self.movie_ids) - 1) :
                    self.user_item_matrix[i][m] > 0 /\ self.user_item_matrix[j][m] > 0})

\* the fitted model with the similarity of every pair of users that has
\* fewer than min_common co-rated items set to zero
Pruned(self) ==
    [self EXCEPT !.user_similarity =
        [i \in DOMAIN self.user_similarity |->
            [j \in DOMAIN self.user_similarity[i] |->
                IF CoRated(self, i, j) < self.min_common THEN 0
                ELSE self.user_similarity[i][j]]]]

\* C26: for the fitted user-based model, predict_rating and recommend return
\* the same results with and without the similarity of the user pairs with
\* fewer than min_common co-rated items set to zero.
C26_PruningChangesNothing ==
    ub.is_fitted =>
        /\ call.op = "user.predict_rating" =>
              result = UserPredictRating(Pruned(ub), call.user_id, call.movie_id)
        /\ call.op = "user.recommend" =>
              result = UserRecommend(Pruned(ub), call.user_id, call.n, call.exclude)

-----------------------------------------------------------------------------
(* The methods that explain_recommendation lists *)

\* the methods listed by an explanation
MethodsOf(explanation) ==
    {explanation.methods[i].method : i \in DOMAIN explanation.methods}

\* the rated list an explain call works with
ExplainRated(c) ==
    IF c.rated_given THEN c.rated ELSE GetUserRatings(hy, c.user_id)

\* the sub-models that produce a prediction for the call's user and movie
Predicting(c) ==
    {m \in {"content_based"} :
        /\ ExplainRated(c) # <<>>
        /\ ContentPredictRating(hy.content_model, c.movie_id, ExplainRated(c)).kind = "float"}
    \cup {m \in {"item_based"} :
            ItemPredictRating(hy.item_model, c.user_id, c.movie_id).kind = "float"}
    \cup {m \in {"user_based"} :
            UserPredictRating(hy.user_model, c.user_id, c.movie_id).kind = "float"}

\* explain_recommendation called by the id of a user and a movie, with or
\* without the user's rated list
HybridExplainCall ==
    /\ call = Idle
    /\ \E u \in Users, m \in Movies, rated_given \in BOOLEAN :
         \E rated \in IF rated_given THEN RatedLists ELSE {<<>>} :
           /\ call' = [op |-> "hybrid.explain_recommendation", user_id |-> u,
                       movie_id |-> m, rated_given |-> rated_given, rated |-> rated]
           /\ result' = HybridExplain(hy, u, m, rated_given, rated)
    /\ exclude_arg' = {}
    /\ UNCHANGED objects

ExplainNext ==
    \/ FitContent \/ FitItem \/ FitUser \/ FitHybrid
    \/ HybridExplainCall \/ Return

\* training, with explanations asked for at any point
ExplainSpec == Init /\ [][ExplainNext]_vars

\* C27: explain_recommendation(user, movie) has a method entry for a
\* sub-model exactly when that sub-model produces a prediction for (user,
\* movie); a sub-model that abstains has no entry in 'methods'.
C27_EntriesAreContributors ==
    (call.op = "hybrid.explain_recommendation" /\ hy.is_fitted) =>
        /\ result.kind = "dict"
        /\ MethodsOf(result.value) = Predicting(call)

-----------------------------------------------------------------------------
(* The caller's exclude set across a recommend call *)

\* C28: ContentBasedModel.recommend_for_user and HybridModel.recommend leave
\* the caller's exclude set as it was: after the call it holds exactly the
\* movie IDs it held before.
C28_ExcludeSetUnchanged ==
    call.op \in {"content.recommend_for_user", "hybrid.recommend"} =>
        exclude_arg = call.exclude

-----------------------------------------------------------------------------
(* recommend of the user-based model against its predict_rating *)

\* rating tables of four users on the four movies (half-stars, 0 = no
\* rating), one row per user: in the first two, users 2 and 3 are the most
\* similar to user 1 and user 4 is less similar; in the third, user 3 is
\* dissimilar to user 1
NeighbourTables ==
    { <<<<10, 2, 0, 0>>, <<10, 2, 10, 0>>, <<10, 2, 0, 0>>, <<8, 6, 2, 0>>>>,
      <<<<10, 2, 0, 0>>, <<10, 2, 0, 10>>, <<10, 2, 0, 0>>, <<8, 6, 2, 0>>>>,
      <<<<10, 2, 0, 0>>, <<10, 2, 10, 0>>, <<2, 10, 0, 6>>, <<0, 0, 0, 0>>>> }

\* the rating log of a table, ordered by user, then movie
NeighbourLog(t) ==
    SelectSeq([i \in 1..16 |->
                  [userId |-> ((i - 1) \div 4) + 1, movieId |-> ((i - 1) % 4) + 1,
                   rating |-> t[((i - 1) \div 4) + 1][((i - 1) % 4) + 1]]],
              LAMBDA row : row.rating # 0)

\* a user-based model, not fitted yet, the catalog of four movies and a log
NeighbourInit ==
    /\ movies_df = WideCatalog
    /\ ratings_df \in {NeighbourLog(t) : t \in NeighbourTables}
    /\ cb = ContentNew
    /\ ib = ItemNew(K, MinRatings)
    /\ ub = UserNew(K, MinCommon)
    /\ hy = HybridNew(6, 7, 7)
    /\ pc = "user"
    /\ n_fits = [content |-> 0, item |-> 0, user |-> 0]
    /\ call = Idle
    /\ result = RetNone
    /\ exclude_arg = {}
    /\ model_files = NoFiles
    /\ model_cache = EmptyDict

NeighbourNext == FitUser \/ UserPredict \/ UserRecommendCall \/ Return

\* the model is fitted and queried
NeighbourSpec == NeighbourInit /\ [][NeighbourNext]_vars

\* the movies the user of the call rated, by the fitted matrix
UserRatedSet(self, user_id) ==
    {m \in DOMAIN self.movie_to_idx :
        self.user_item_matrix[self.user_to_idx[user_id]][self.movie_to_idx[m]] > 0}

\* a call of recommend for a user of the fitted index, answered with a list
KnownUserRecommend ==
    /\ call.op = "user.recommend" /\ ub.is_fitted
    /\ call.user_id \in DOMAIN ub.user_to_idx
    /\ result.kind = "list"

\* the score of every returned movie is predict_rating(user, movie)
C29_ScoresArePredictions ==
    KnownUserRecommend =>
        \A i \in DOMAIN result.value :
            UserPredictRating(ub, call.user_id, result.value[i].movieId)
                = RetFloat(result.value[i].score)

\* every movie outside exclude and the rated set that predict_rating has a
\* value for is returned, when the list is shorter than n (nothing was cut)
C29_PredictableAreCandidates ==
    (KnownUserRecommend /\ Len(result.value) < call.n) =>
        \A m \in Movies :
            (/\ m \notin call.exclude
             /\ m \notin UserRatedSet(ub, call.user_id)
             /\ UserPredictRating(ub, call.user_id, m).kind = "float")
                => m \in Range(IdsOf(result.value))

\* C29: for the fitted user-based model and every known user, the score of
\* every movie returned by recommend(user, n, exclude) equals
\* predict_rating(user, movie), and every movie outside exclude and the
\* user's rated set for which predict_rating returns a value is a candidate
\* of recommend.
C29_RecommendAgreesWithPredict ==
    C29_ScoresArePredictions /\ C29_PredictableAreCandidates

-----------------------------------------------------------------------------
(* The model cache of the recommendation routes *)

\* the versions of a model file that training may write
MaxVersion == 2

\* the object pickle.load makes of version v; every load makes a new object,
\* told apart from the earlier ones by its id
Loaded(cache, v) == [id |-> Cardinality(DOMAIN cache) + 1, version |-> v]

RetModel(model) == [kind |-> "model", value |-> model]

\* A faulty lookup, which loads the file whenever it exists and uses the
\* cache only for a missing file.
GetModelReloading(cache, files, model_name) ==
    IF files[model_name] # 0
    THEN LET model == Loaded(cache, files[model_name])
         IN [result |-> RetModel(model), disk |-> TRUE,
             cache |-> [name \in DOMAIN cache \cup {model_name} |->
                           IF name = model_name THEN model ELSE cache[name]]]
    ELSE IF model_name \in DOMAIN cache
    THEN [result |-> RetModel(cache[model_name]), cache |-> cache, disk |-> TRUE]
    ELSE [result |-> RetNone, cache |-> cache, disk |-> TRUE]

\* _get_model: what it returns, the cache as it leaves it, and whether it
\* went to the disk (os.path.exists, open)
GetModelOutcome(cache, files, model_name) ==
    IF model_name \in DOMAIN cache
    THEN [result |-> RetModel(cache[model_name]), cache |-> cache, disk |-> FALSE]
    ELSE IF files[model_name] # 0
    THEN LET model == Loaded(cache, files[model_name])
         IN [result |-> RetModel(model), disk |-> TRUE,
             cache |-> [name \in DOMAIN cache \cup {model_name} |->
                           IF name = model_name THEN model ELSE cache[name]]]
    ELSE [result |-> RetNone, cache |-> cache, disk |-> TRUE]

\* everything but the call, the cache and the files
models == <<movies_df, ratings_df, cb, ib, ub, hy, pc, n_fits, exclude_arg>>

\* the server has started: nothing is cached, any of the files may exist
CacheInit ==
    /\ movies_df = <<>>
    /\ ratings_df = <<>>
    /\ cb = ContentNew
    /\ ib = ItemNew(K, MinRatings)
    /\ ub = UserNew(K, MinCommon)
    /\ hy = HybridNew(6, 7, 7)
    /\ pc = "serving"
    /\ n_fits = [content |-> 0, item |-> 0, user |-> 0]
    /\ call = Idle
    /\ result = RetNone
    /\ exclude_arg = {}
    /\ model_files \in [ModelNames -> 0..1]
    /\ model_cache = EmptyDict

\* a route asks for a model by name
GetModel ==
    /\ call = Idle
    /\ \E model_name \in ModelNames :
         LET out == GetModelOutcome(model_cache, model_files, model_name)
         IN /\ call' = [op |-> "_get_model", model_name |-> model_name,
                        disk |-> out.disk]
            /\ result' = out.result
            /\ model_cache' = out.cache
    /\ UNCHANGED <<models, model_files>>

\* the training script saves another version of a model
WriteFile ==
    /\ \E model_name \in ModelNames, v \in 1..MaxVersion :
         /\ v # model_files[model_name]
         /\ model_files' = [model_files EXCEPT ![model_name] = v]
    /\ UNCHANGED <<models, call, result, model_cache>>

\* a model file is deleted
RemoveFile ==
    /\ \E model_name \in ModelNames :
         /\ model_files[model_name] # 0
         /\ model_files' = [model_files EXCEPT ![model_name] = 0]
    /\ UNCHANGED <<models, call, result, model_cache>>

CacheNext == GetModel \/ Return \/ WriteFile \/ RemoveFile

CacheSpec == CacheInit /\ [][CacheNext]_vars

\* a model that a call returned is the cached model of its name
ReturnedIsCached ==
    (call.op = "_get_model" /\ result.kind = "model") =>
        /\ call.model_name \in DOMAIN model_cache
        /\ model_cache[call.model_name] = result.value

\* a cached model stays cached and is never replaced
CacheKeeps ==
    \A name \in DOMAIN model_cache :
        name \in DOMAIN model_cache' /\ model_cache'[name] = model_cache[name]

\* what a call of _get_model does in each of its three cases
CallsFollowCache ==
    (call = Idle /\ call'.op = "_get_model") =>
        LET name == call'.model_name
        IN /\ name \in DOMAIN model_cache =>
                /\ result' = RetModel(model_cache[name])
                /\ ~call'.disk
           /\ (name \notin DOMAIN model_cache /\ model_files[name] = 0) =>
                /\ result' = RetNone
                /\ model_cache' = model_cache
           /\ (name \notin DOMAIN model_cache /\ model_files[name] # 0) =>
                /\ result'.kind = "model"
                /\ result'.value.version = model_files[name]

\* C30: over any sequence of _get_model calls and changes to the model
\* files, once _get_model(name) has returned a model every later
\* _get_model(name) returns that same object without going to the disk; a
\* call made while the file is missing returns None and caches nothing, and
\* a later call after the file appears loads and returns the model.
C30_CacheLoadsOnce ==
    /\ []ReturnedIsCached
    /\ [][CacheKeeps /\ CallsFollowCache]_vars

\* a call returned the cached model of a name whose file has since been
\* replaced or deleted, without going to the disk
C30_HitAfterFileChanged ==
    /\ call.op = "_get_model" /\ ~call.disk
    /\ result.kind = "model"
    /\ model_files[call.model_name] # result.value.version

\* a call found no file and cached nothing, and the file is there now
C30_MissThenFileAppears ==
    /\ call.op = "_get_model" /\ result = RetNone
    /\ call.model_name \notin DOMAIN model_cache
    /\ model_files[call.model_name] # 0

=============================================================================
